---- MODULE Spec2Model ----
(***************************************************************************)
(* Model of the VDG investment analyzer's financial metrics engine          *)
(* (client/src/lib/calculations.ts: calculateMetrics, calculateValuation).  *)
(*                                                                         *)
(* JavaScript numbers are modelled as records [n, d, e] standing for the    *)
(* value (n/d) * 2^(-128*e): an exact reduced fraction n/d on the scale     *)
(* level e.  d = 0 encodes the IEEE-754 specials: n = 1 is +Infinity,       *)
(* n = -1 is -Infinity, n = 0 is NaN.  Level 0 holds ordinary amounts;      *)
(* a value on a higher level is more than 2^53 times smaller than any       *)
(* level-0 amount of the model, so an IEEE-754 addition absorbs it          *)
(* (1 + x = 1).  Within one level arithmetic is exact; the rounding error   *)
(* of individual double operations is not modelled.                         *)
(***************************************************************************)
EXTENDS Integers, Sequences, FiniteSets, TLC

VARIABLES property, metrics, call, result, pc, retry, viz, app

vars == <<property, metrics, call, result, pc, retry, viz, app>>

----------------------------------------------------------------------------
(* JavaScript number arithmetic *)

Abs(i) == IF i < 0 THEN -i ELSE i

Sgn(i) == IF i > 0 THEN 1 ELSE IF i < 0 THEN -1 ELSE 0

RECURSIVE Gcd(_, _)
Gcd(a, b) == IF b = 0 THEN a ELSE Gcd(b, a % b)

Zero == [n |-> 0, d |-> 1, e |-> 0]

NaN == [n |-> 0, d |-> 0, e |-> 0]

Infinity(s) == [n |-> Sgn(s), d |-> 0, e |-> 0]

\* The number n/d on scale level e, reduced (d >= 0; d = 0 gives a special).
Norm(n, d, e) ==
  IF d = 0 THEN Infinity(n)
  ELSE IF n = 0 THEN Zero
  ELSE IF d = 1 THEN [n |-> n, d |-> 1, e |-> e]
  ELSE LET g == Gcd(Abs(n), d) IN [n |-> n \div g, d |-> d \div g, e |-> e]

Num(i) == Norm(i, 1, 0)

Frac(n, d) == Norm(n, d, 0)

IsNaN(x) == x.d = 0 /\ x.n = 0

IsInfinite(x) == x.d = 0 /\ x.n # 0

IsFinite(x) == x.d # 0

IsZero(x) == x.d # 0 /\ x.n = 0

Neg(x) == [x EXCEPT !.n = -x.n]

\* x * y
Mul(x, y) ==
  IF IsNaN(x) \/ IsNaN(y) THEN NaN
  ELSE IF IsInfinite(x) \/ IsInfinite(y)
       THEN (IF IsZero(x) \/ IsZero(y) THEN NaN ELSE Infinity(x.n * y.n))
  ELSE IF IsZero(x) \/ IsZero(y) THEN Zero
  ELSE LET g1 == Gcd(Abs(x.n), y.d)
           g2 == Gcd(Abs(y.n), x.d)
       IN  [n |-> (x.n \div g1) * (y.n \div g2), d |-> (x.d \div g2) * (y.d \div g1),
            e |-> x.e + y.e]

\* x / y: a nonzero number over zero is an infinity, 0/0 is NaN.
Div(x, y) ==
  IF IsNaN(x) \/ IsNaN(y) THEN NaN
  ELSE IF IsZero(y) THEN (IF IsZero(x) THEN NaN ELSE Infinity(x.n))
  ELSE IF IsInfinite(y) THEN (IF IsInfinite(x) THEN NaN ELSE Zero)
  ELSE IF IsInfinite(x) THEN Infinity(x.n * y.n)
  ELSE Mul(x, [n |-> Sgn(y.n) * y.d, d |-> Abs(y.n), e |-> -y.e])

\* x + y: on different scale levels the smaller operand is absorbed.
Add(x, y) ==
  IF IsNaN(x) \/ IsNaN(y) THEN NaN
  ELSE IF IsInfinite(x) /\ IsInfinite(y) THEN (IF x.n = y.n THEN x ELSE NaN)
  ELSE IF IsInfinite(x) THEN x
  ELSE IF IsInfinite(y) THEN y
  ELSE IF IsZero(x) THEN y
  ELSE IF IsZero(y) THEN x
  ELSE IF x.e < y.e THEN x
  ELSE IF y.e < x.e THEN y
  ELSE IF x.d = y.d THEN Norm(x.n + y.n, x.d, x.e)
  ELSE LET g == Gcd(x.d, y.d)
       IN  Norm(x.n * (y.d \div g) + y.n * (x.d \div g), (x.d \div g) * y.d, x.e)

Sub(x, y) == Add(x, Neg(y))

\* x > 0 (false for NaN)
GtZero(x) == x.n > 0

\* x <= y (false when either is NaN)
Leq(x, y) == ~IsNaN(x) /\ ~IsNaN(y) /\ (x = y \/ GtZero(Sub(y, x)))

\* Math.pow(x, y) for y a non-negative whole number; Math.pow(x, 0) is 1.
RECURSIVE PowNat(_, _)
PowNat(x, k) == IF k = 0 THEN Num(1) ELSE Mul(x, PowNat(x, k - 1))

MathPow(x, y) == PowNat(x, y.n)

\* Mutant: ties are rounded away from zero (-1.125 gives -1.13) instead of towards +Infinity.
Round2_halfAwayFromZero(x) ==
  IF ~IsFinite(x) THEN x
  ELSE IF x.e > 0 THEN Zero
  ELSE IF x.e < 0 THEN x
  ELSE LET a  == Abs(x.n)
           q  == a \div x.d
           r  == a % x.d
           h1 == (10 * r) \div x.d
           r1 == (10 * r) % x.d
           h2 == (10 * r1) \div x.d
           r2 == (10 * r1) % x.d
           up == IF 2 * r2 >= x.d THEN 1 ELSE 0
           m  == Add(Num(q), Frac(10 * h1 + h2 + up, 100))
       IN  IF x.n < 0 THEN Neg(m) ELSE m

\* Math.round(x * 100) / 100: to the nearest hundredth, ties towards +Infinity.
Round2(x) ==
  IF ~IsFinite(x) THEN x
  ELSE IF x.e > 0 THEN Zero
  ELSE IF x.e < 0 THEN x
  ELSE LET q  == x.n \div x.d
           r  == x.n % x.d
           h1 == (10 * r) \div x.d
           r1 == (10 * r) % x.d
           h2 == (10 * r1) \div x.d
           r2 == (10 * r1) % x.d
           up == IF 2 * r2 >= x.d THEN 1 ELSE 0
       IN  Add(Num(q), Frac(10 * h1 + h2 + up, 100))

----------------------------------------------------------------------------
(* calculateMetrics.  A property p is a record [type, shared, ltr, str,    *)
(* manualExpenses]; an optional member (ltr?, str?, manualExpenses?) is a    *)
(* sequence that is empty when the member is undefined and holds the        *)
(* member's value otherwise.                                               *)

Present(opt) == Len(opt) > 0

monthlyRate(shared) == Div(Div(shared.interestRate, Num(100)), Num(12))

numPayments(shared) == Mul(shared.loanTermYears, Num(12))

\* Mutant: the original loan amount takes precedence over the remaining balance.
activeLoanBalance_preferOriginal(shared) ==
  IF GtZero(shared.loanAmount) THEN shared.loanAmount ELSE shared.loanRemaining

activeLoanBalance(shared) ==
  IF GtZero(shared.loanRemaining) THEN shared.loanRemaining ELSE shared.loanAmount

\* Mutant: the payment is guarded on the balance alone, not on the rate.
monthlyMortgagePayment_noRateGuard(shared) ==
  LET balance == activeLoanBalance(shared)
      rate == monthlyRate(shared)
      pow == MathPow(Add(Num(1), rate), numPayments(shared))
  IN  IF GtZero(balance)
      THEN Div(Mul(balance, Mul(rate, pow)), Sub(pow, Num(1)))
      ELSE Zero

monthlyMortgagePayment(shared) ==
  LET balance == activeLoanBalance(shared)
      rate == monthlyRate(shared)
      pow == MathPow(Add(Num(1), rate), numPayments(shared))
  IN  IF GtZero(balance) /\ GtZero(rate)
      THEN Div(Mul(balance, Mul(rate, pow)), Sub(pow, Num(1)))
      ELSE Zero

isLTR(p) == p.type = "LTR" /\ Present(p.ltr)

\* Mutant: the STR branch is taken on the payload alone, whatever the type tag.
isSTR_anyPayload(p) == ~isLTR(p) /\ Present(p.str)

isSTR(p) == ~isLTR(p) /\ p.type = "STR" /\ Present(p.str)

\* Mutant: the occupancy rate is not applied to the days of the month.
grossMonthlyIncome_fullOccupancy(p) ==
  IF isLTR(p)
  THEN Mul(p.ltr[1].grossRentPerMonth, p.ltr[1].numberOfUnits)
  ELSE IF isSTR(p)
  THEN Mul(p.str[1].daysInMonth, p.str[1].dailyRate)
  ELSE Zero

grossMonthlyIncome(p) ==
  IF isLTR(p)
  THEN Mul(p.ltr[1].grossRentPerMonth, p.ltr[1].numberOfUnits)
  ELSE IF isSTR(p)
  THEN LET bookedNights == Mul(p.str[1].daysInMonth, Div(p.str[1].occupancyRate, Num(100)))
       IN  Mul(bookedNights, p.str[1].dailyRate)
  ELSE Zero

\* Mutant: the PM fee is charged on one unit's rent instead of the gross income.
totalMonthlyExpenses_feePerUnit(p, income) ==
  IF isLTR(p)
  THEN LET ltr == p.ltr[1]
           pmFee == Mul(ltr.grossRentPerMonth, Div(ltr.pmFeePercent, Num(100)))
           monthlyTax == Div(ltr.annualPropertyTax, Num(12))
           monthlyInsurance == Div(ltr.annualInsurance, Num(12))
       IN  Add(Add(Add(pmFee, monthlyTax), monthlyInsurance), ltr.monthlyRepairReserve)
  ELSE IF isSTR(p)
  THEN LET str == p.str[1]
           coHostFee == Mul(income, Div(str.coHostFeePercent, Num(100)))
           cleaningCosts == Mul(str.cleaningFeePerStay, str.avgStaysPerMonth)
           monthlyTax == Div(str.annualPropertyTax, Num(12))
           monthlyInsurance == Div(str.annualInsurance, Num(12))
       IN  Add(Add(Add(Add(coHostFee, cleaningCosts), monthlyTax), monthlyInsurance),
               str.monthlyUtilities)
  ELSE Zero

\* income: the grossMonthlyIncome computed in the same branch
totalMonthlyExpenses(p, income) ==
  IF isLTR(p)
  THEN LET ltr == p.ltr[1]
           pmFee == Mul(income, Div(ltr.pmFeePercent, Num(100)))
           monthlyTax == Div(ltr.annualPropertyTax, Num(12))
           monthlyInsurance == Div(ltr.annualInsurance, Num(12))
       IN  Add(Add(Add(pmFee, monthlyTax), monthlyInsurance), ltr.monthlyRepairReserve)
  ELSE IF isSTR(p)
  THEN LET str == p.str[1]
           coHostFee == Mul(income, Div(str.coHostFeePercent, Num(100)))
           cleaningCosts == Mul(str.cleaningFeePerStay, str.avgStaysPerMonth)
           monthlyTax == Div(str.annualPropertyTax, Num(12))
           monthlyInsurance == Div(str.annualInsurance, Num(12))
       IN  Add(Add(Add(Add(coHostFee, cleaningCosts), monthlyTax), monthlyInsurance),
               str.monthlyUtilities)
  ELSE Zero

netMonthlyIncome(income, expenses) == Sub(income, expenses)

\* Mutant: the mortgage payment is added instead of subtracted.
netMonthlyCashFlow_plusMortgage(income, payment) == Add(income, payment)

netMonthlyCashFlow(income, payment) == Sub(income, payment)

\* Mutant: the down payment is derived from the active balance (loanRemaining first).
downPayment_fromActiveBalance(shared) ==
  IF GtZero(shared.downpayment) THEN shared.downpayment
  ELSE Sub(shared.purchasePrice, activeLoanBalance(shared))

downPayment(shared) ==
  IF GtZero(shared.downpayment) THEN shared.downpayment
  ELSE Sub(shared.purchasePrice, shared.loanAmount)

initialCashInvested(shared) == Add(downPayment(shared), shared.closingCosts)

\* Mutant: the monthly figure is not annualized.
annualNetCashFlow_notAnnualized(monthly) == monthly

annualNetCashFlow(monthly) == Mul(monthly, Num(12))

\* Mutant: only a denominator of exactly 0 is guarded.
cashOnCashReturn_guardZeroOnly(annual, invested) ==
  IF IsZero(invested) THEN Zero ELSE Mul(Div(annual, invested), Num(100))

cashOnCashReturn(annual, invested) ==
  IF GtZero(invested) THEN Mul(Div(annual, invested), Num(100)) ELSE Zero

annualNOI(income) == Mul(income, Num(12))

\* Mutant: the purchase price is not guarded.
capRate_noGuard(noi, shared) == Mul(Div(noi, shared.purchasePrice), Num(100))

capRate(noi, shared) ==
  IF GtZero(shared.purchasePrice) THEN Mul(Div(noi, shared.purchasePrice), Num(100)) ELSE Zero

\* property.manualExpenses || []
manualExpenses(p) == IF Present(p.manualExpenses) THEN p.manualExpenses[1] ELSE <<>>

\* es.filter(e => e.timing === timing).reduce((sum, e) => sum + e.estimatedCost, 0)
RECURSIVE SumCost(_, _)
SumCost(es, timing) ==
  IF es = <<>> THEN Zero
  ELSE LET front == SumCost(SubSeq(es, 1, Len(es) - 1), timing)
           last == es[Len(es)]
       IN  IF last.timing = timing THEN Add(front, last.estimatedCost) ELSE front

immediateCapEx(p) == SumCost(manualExpenses(p), "IMMEDIATE")

\* Mutant: every expense that is not IMMEDIATE counts as Year-1 CapEx.
year1CapEx_allButImmediate(p) ==
  Sub(SumCost([i \in 1..Len(manualExpenses(p)) |->
                 [manualExpenses(p)[i] EXCEPT !.timing = "ANY"]], "ANY"),
      SumCost(manualExpenses(p), "IMMEDIATE"))

year1CapEx(p) == SumCost(manualExpenses(p), "YEAR_1")

totalManualCapEx(immediate, year1) == Add(immediate, year1)

adjustedInitialCashInvested(invested, immediate) == Add(invested, immediate)

adjustedAnnualNetCashFlow(annual, year1) == Sub(annual, year1)

adjustedCashOnCashReturn(annual, invested) ==
  IF GtZero(invested) THEN Mul(Div(annual, invested), Num(100)) ELSE Zero

\* Mutant: immediate CapEx is left out of the total property cost.
totalPropertyCost_priceOnly(shared, immediate) == shared.purchasePrice

totalPropertyCost(shared, immediate) == Add(shared.purchasePrice, immediate)

adjustedCapRate(noi, cost) ==
  IF GtZero(cost) THEN Mul(Div(noi, cost), Num(100)) ELSE Zero

hasManualCapEx(total) == GtZero(total)

\* Mutant: initial cash invested is never switched to its adjusted value.
finalInitialCashInvested_raw(has, adjusted, raw) == raw

finalInitialCashInvested(has, adjusted, raw) == IF has THEN adjusted ELSE raw

finalCashOnCashReturn(has, adjusted, raw) == IF has THEN adjusted ELSE raw

\* Mutant: the cap rate is never switched to its adjusted value.
finalCapRate_raw(has, adjusted, raw) == raw

finalCapRate(has, adjusted, raw) == IF has THEN adjusted ELSE raw

finalAnnualNetCashFlow(has, adjusted, raw) == IF has THEN adjusted ELSE raw

\* Mutant: the whole Year-1 CapEx is taken off the monthly figure.
adjustedNetMonthlyCashFlow_notSpread(monthly, year1) == Sub(monthly, year1)

adjustedNetMonthlyCashFlow(monthly, year1) == Sub(monthly, Div(year1, Num(12)))

finalNetMonthlyCashFlow(has, adjusted, raw) == IF has THEN adjusted ELSE raw

\* The local constants of calculateMetrics, each computed once, in the order of the code:
\* the mortgage payment and the income of the property's branch
mortgageAndIncome(p) ==
  [ monthlyMortgagePayment |-> monthlyMortgagePayment(p.shared),
    grossMonthlyIncome     |-> grossMonthlyIncome(p) ]

\* the expenses of the same branch
withExpenses(p, c) ==
  c @@ [ totalMonthlyExpenses |-> totalMonthlyExpenses(p, c.grossMonthlyIncome) ]

withNetIncome(c) ==
  c @@ [ netMonthlyIncome |-> netMonthlyIncome(c.grossMonthlyIncome, c.totalMonthlyExpenses) ]

withCashFlow(p, c) ==
  c @@ [ netMonthlyCashFlow  |-> netMonthlyCashFlow(c.netMonthlyIncome, c.monthlyMortgagePayment),
         initialCashInvested |-> initialCashInvested(p.shared) ]

withAnnuals(c) ==
  c @@ [ annualNetCashFlow |-> annualNetCashFlow(c.netMonthlyCashFlow),
         annualNOI         |-> annualNOI(c.netMonthlyIncome) ]

withReturns(p, c) ==
  c @@ [ cashOnCashReturn |-> cashOnCashReturn(c.annualNetCashFlow, c.initialCashInvested),
         capRate          |-> capRate(c.annualNOI, p.shared) ]

withCapEx(p, c) ==
  c @@ [ immediateCapEx |-> immediateCapEx(p),
         year1CapEx     |-> year1CapEx(p) ]

withAdjusted(p, c) ==
  c @@ [ totalManualCapEx            |-> totalManualCapEx(c.immediateCapEx, c.year1CapEx),
         adjustedInitialCashInvested |->
           adjustedInitialCashInvested(c.initialCashInvested, c.immediateCapEx),
         adjustedAnnualNetCashFlow   |->
           adjustedAnnualNetCashFlow(c.annualNetCashFlow, c.year1CapEx),
         totalPropertyCost           |-> totalPropertyCost(p.shared, c.immediateCapEx),
         adjustedNetMonthlyCashFlow  |->
           adjustedNetMonthlyCashFlow(c.netMonthlyCashFlow, c.year1CapEx) ]

withAdjustedReturns(c) ==
  c @@ [ adjustedCashOnCashReturn |->
           adjustedCashOnCashReturn(c.adjustedAnnualNetCashFlow, c.adjustedInitialCashInvested),
         adjustedCapRate          |-> adjustedCapRate(c.annualNOI, c.totalPropertyCost),
         hasManualCapEx           |-> hasManualCapEx(c.totalManualCapEx) ]

withFinals(c) ==
  c @@ [ finalInitialCashInvested |->
           finalInitialCashInvested(c.hasManualCapEx, c.adjustedInitialCashInvested,
                                    c.initialCashInvested),
         finalCashOnCashReturn    |->
           finalCashOnCashReturn(c.hasManualCapEx, c.adjustedCashOnCashReturn,
                                 c.cashOnCashReturn),
         finalCapRate             |->
           finalCapRate(c.hasManualCapEx, c.adjustedCapRate, c.capRate),
         finalAnnualNetCashFlow   |->
           finalAnnualNetCashFlow(c.hasManualCapEx, c.adjustedAnnualNetCashFlow,
                                  c.annualNetCashFlow),
         finalNetMonthlyCashFlow  |->
           finalNetMonthlyCashFlow(c.hasManualCapEx, c.adjustedNetMonthlyCashFlow,
                                   c.netMonthlyCashFlow) ]

locals(p) ==
  withFinals(withAdjustedReturns(withAdjusted(p, withCapEx(p, withReturns(p,
    withAnnuals(withCashFlow(p, withNetIncome(withExpenses(p, mortgageAndIncome(p))))))))))

\* The returned record: Math.round(x * 100) / 100 of the final values.
rounded(c) ==
  [ monthlyMortgagePayment      |-> Round2(c.monthlyMortgagePayment),
    grossMonthlyIncome          |-> Round2(c.grossMonthlyIncome),
    totalMonthlyExpenses        |-> Round2(c.totalMonthlyExpenses),
    netMonthlyIncome            |-> Round2(c.netMonthlyIncome),
    netMonthlyCashFlow          |-> Round2(c.finalNetMonthlyCashFlow),
    initialCashInvested         |-> Round2(c.finalInitialCashInvested),
    cashOnCashReturn            |-> Round2(c.finalCashOnCashReturn),
    capRate                     |-> Round2(c.finalCapRate),
    annualGrossIncome           |-> Round2(Mul(c.grossMonthlyIncome, Num(12))),
    annualNetCashFlow           |-> Round2(c.finalAnnualNetCashFlow),
    totalManualCapEx            |-> Round2(c.totalManualCapEx),
    immediateCapEx              |-> Round2(c.immediateCapEx),
    year1CapEx                  |-> Round2(c.year1CapEx),
    adjustedInitialCashInvested |-> Round2(c.adjustedInitialCashInvested),
    adjustedCashOnCashReturn    |-> Round2(c.adjustedCashOnCashReturn),
    adjustedCapRate             |-> Round2(c.adjustedCapRate) ]

calculateMetrics(p) == rounded(locals(p))

----------------------------------------------------------------------------
(* Inputs *)

\* Longest loan term, in monthly payments (loanTermYears = k/12, k \in 0..MaxPayments).
MaxPayments == 2

\* Largest numberOfUnits of an LTR payload.
MaxUnits == 2

\* Longest manualExpenses list.
MaxExpenses == 2

\* A positive double far below 2^-53 (2^-128): a valid non-negative amount or rate.
Tiny == [n |-> 1, d |-> 1, e |-> 1]

PurchasePrices == {Num(0), Num(1000)}

Downpayments == {Num(0), Num(200)}

LoanAmounts == {Num(0), Num(1050)}

LoanRemainings == {Num(0), Tiny, Num(600)}

InterestRates == {Num(0), Tiny, Num(60), Num(100)}

LoanTerms == {Frac(k, 12) : k \in 0..MaxPayments}

ClosingCostsValues == {Num(50)}

SharedDetails ==
  [ purchasePrice : PurchasePrices, downpayment : Downpayments, loanAmount : LoanAmounts,
    loanRemaining : LoanRemainings, interestRate : InterestRates,
    loanTermYears : LoanTerms, closingCosts : ClosingCostsValues ]

LTRDetails ==
  [ grossRentPerMonth : {Num(1500)}, numberOfUnits : {Num(u) : u \in 1..MaxUnits},
    pmFeePercent : {Num(10)}, annualPropertyTax : {Num(2400)},
    annualInsurance : {Num(1200)}, monthlyRepairReserve : {Num(50)} ]

STRDetails ==
  [ dailyRate : {Num(100)}, daysInMonth : {Num(30)}, occupancyRate : {Num(75)},
    coHostFeePercent : {Num(15)}, cleaningFeePerStay : {Num(40)},
    avgStaysPerMonth : {Num(4)}, monthlyUtilities : {Num(80)},
    annualPropertyTax : {Num(2400)}, annualInsurance : {Num(1000)} ]

ltrSample == CHOOSE l \in LTRDetails : l.numberOfUnits = Num(1)

strSample == CHOOSE s \in STRDetails : TRUE

\* type with its payloads: matching, missing and mismatched.
Details ==
       {[type |-> "LTR", ltr |-> <<l>>, str |-> <<>>] : l \in LTRDetails}
  \cup {[type |-> "STR", ltr |-> <<>>, str |-> <<s>>] : s \in STRDetails}
  \cup {[type |-> t, ltr |-> <<>>, str |-> <<>>] : t \in {"LTR", "STR"}}
  \cup {[type |-> "LTR", ltr |-> <<>>, str |-> <<strSample>>],
        [type |-> "STR", ltr |-> <<ltrSample>>, str |-> <<>>]}

ManualExpense ==
  { [estimatedCost |-> Num(300), timing |-> "IMMEDIATE"],
    [estimatedCost |-> Num(1200), timing |-> "YEAR_1"],
    [estimatedCost |-> Frac(2001, 2), timing |-> "YEAR_1"] }

ExpenseLists == UNION {[1..k -> ManualExpense] : k \in 0..MaxExpenses}

\* manualExpenses?: undefined, or a list
OptExpenseLists == {<<>>} \cup {<<es>> : es \in ExpenseLists}

Properties ==
  { [type |-> dt.type, shared |-> sh, ltr |-> dt.ltr, str |-> dt.str, manualExpenses |-> me] :
      dt \in Details, sh \in SharedDetails, me \in OptExpenseLists }

\* A property with nothing entered, and its metrics.
NoProperty ==
  [type |-> "LTR", ltr |-> <<>>, str |-> <<>>, manualExpenses |-> <<>>,
   shared |-> [purchasePrice |-> Zero, downpayment |-> Zero, loanAmount |-> Zero,
               loanRemaining |-> Zero, interestRate |-> Zero, loanTermYears |-> Zero,
               closingCosts |-> Zero]]

NoMetrics == calculateMetrics(NoProperty)

\* Longest portfolio.
MaxPortfolio == 2

\* { ...property, metrics: calculateMetrics(property) }
PropertyAnalysis(p) == p @@ [metrics |-> calculateMetrics(p)]

\* An LTR bought with a down payment and no loan.
sampleLTR ==
  [type |-> "LTR", ltr |-> <<ltrSample>>, str |-> <<>>, manualExpenses |-> <<>>,
   shared |-> [purchasePrice |-> Num(1000), downpayment |-> Num(200), loanAmount |-> Zero,
               loanRemaining |-> Zero, interestRate |-> Zero, loanTermYears |-> Zero,
               closingCosts |-> Num(50)]]

\* A financed STR whose loan exceeds the price by the closing costs.
sampleSTR ==
  [type |-> "STR", ltr |-> <<>>, str |-> <<strSample>>, manualExpenses |-> <<>>,
   shared |-> [purchasePrice |-> Num(1000), downpayment |-> Zero, loanAmount |-> Num(1050),
               loanRemaining |-> Num(600), interestRate |-> Num(60),
               loanTermYears |-> Frac(2, 12), closingCosts |-> Num(50)]]

\* A property without income details and with a Year-1 repair.
sampleVacant ==
  [type |-> "LTR", ltr |-> <<>>, str |-> <<>>,
   manualExpenses |-> << <<[estimatedCost |-> Frac(2001, 2), timing |-> "YEAR_1"]>> >>,
   shared |-> [purchasePrice |-> Num(500), downpayment |-> Zero, loanAmount |-> Zero,
               loanRemaining |-> Zero, interestRate |-> Zero, loanTermYears |-> Zero,
               closingCosts |-> Num(50)]]

Analyses == {PropertyAnalysis(p) : p \in {sampleLTR, sampleSTR, sampleVacant}}

Portfolios == UNION {[1..k -> Analyses] : k \in 0..MaxPortfolio}

\* The slider's range (3 to 12 in steps of 0.25) and values outside it.
MarketCapRates == {Num(-6), Num(0), Tiny, Num(3), Num(6), Frac(25, 4), Num(12)}

AnnualNOIs == {Num(-12000), Num(0), Tiny, Num(12000), Num(60000)}

Calls ==
       {[fn |-> "calculateValuation", annualNOI |-> a, marketCapRate |-> r] :
          a \in AnnualNOIs, r \in MarketCapRates}
  \cup {[fn |-> "Dashboard", portfolio |-> ps, marketCapRate |-> r] :
          ps \in Portfolios, r \in MarketCapRates}
  \cup {[fn |-> "exportDashboardPDF", properties |-> ps, marketCapRate |-> r] :
          ps \in Portfolios, r \in MarketCapRates}

NoCall == [fn |-> "calculateMetrics"]

NoResult == [fn |-> "none"]

----------------------------------------------------------------------------
(* Portfolio aggregation: calculateValuation, the Dashboard totals and the  *)
(* totals and investor table of exportDashboardPDF.  A portfolio is a       *)
(* sequence of PropertyAnalysis records: a property with its metrics.       *)

\* Mutant: only a market cap rate of exactly 0 is guarded.
calculateValuation_guardZeroOnly(noi, rate) ==
  IF IsZero(rate) THEN Zero ELSE Div(noi, Div(rate, Num(100)))

calculateValuation(noi, rate) ==
  IF Leq(rate, Zero) THEN Zero ELSE Div(noi, Div(rate, Num(100)))

\* |x| to the nearest whole number, ties away from zero (Intl.NumberFormat's halfExpand)
RoundHalfExpand(x) ==
  IF ~IsFinite(x) \/ x.e < 0 THEN [x EXCEPT !.n = Abs(x.n)]
  ELSE IF x.e > 0 THEN Zero
  ELSE LET q == Abs(x.n) \div x.d
           r == Abs(x.n) % x.d
       IN  Num(q + (IF 2 * r >= x.d THEN 1 ELSE 0))

\* The text of formatCurrency(value): a minus sign for a negative value, then the whole
\* dollars of its magnitude (maximumFractionDigits: 0).
formatCurrency(value) == [negative |-> value.n < 0, dollars |-> RoundHalfExpand(value)]

\* The text of formatPercent(value), value.toFixed(2) + "%": a minus sign for a negative
\* value, then its magnitude in hundredths, to the nearest hundredth.
formatPercent(value) ==
  IF ~IsFinite(value) \/ value.e < 0
  THEN [negative |-> value.n < 0, hundredths |-> [value EXCEPT !.n = Abs(value.n)]]
  ELSE IF value.e > 0 THEN [negative |-> value.n < 0, hundredths |-> Zero]
  ELSE LET a  == Abs(value.n)
           q  == a \div value.d
           r  == a % value.d
           h1 == (10 * r) \div value.d
           r1 == (10 * r) % value.d
           h2 == (10 * r1) \div value.d
           r2 == (10 * r1) % value.d
           up == IF 2 * r2 >= value.d THEN 1 ELSE 0
       IN  [negative |-> value.n < 0, hundredths |-> Num(100 * q + 10 * h1 + h2 + up)]

\* xs.reduce((sum, x) => sum + x, 0)
RECURSIVE SumSeq(_)
SumSeq(xs) ==
  IF Len(xs) = 0 THEN Zero
  ELSE Add(SumSeq(SubSeq(xs, 1, Len(xs) - 1)), xs[Len(xs)])

\* Dashboard.tsx, totals
totalValue(portfolio) == SumSeq([i \in 1..Len(portfolio) |-> portfolio[i].shared.purchasePrice])

totalCashInvested(portfolio) ==
  SumSeq([i \in 1..Len(portfolio) |-> portfolio[i].metrics.initialCashInvested])

totalAnnualCashFlow(portfolio) ==
  SumSeq([i \in 1..Len(portfolio) |-> portfolio[i].metrics.annualNetCashFlow])

totalMonthlyCashFlow(portfolio) ==
  SumSeq([i \in 1..Len(portfolio) |-> portfolio[i].metrics.netMonthlyCashFlow])

totalAnnualNOI(portfolio) ==
  SumSeq([i \in 1..Len(portfolio) |-> Mul(portfolio[i].metrics.netMonthlyIncome, Num(12))])

avgCoC(portfolio) ==
  IF Len(portfolio) > 0
  THEN Div(SumSeq([i \in 1..Len(portfolio) |-> portfolio[i].metrics.cashOnCashReturn]),
           Num(Len(portfolio)))
  ELSE Zero

\* Mutant: the average cap rate is weighted by purchase price.
avgCapRate_weightedByPrice(portfolio) ==
  IF Len(portfolio) > 0
  THEN Div(SumSeq([i \in 1..Len(portfolio) |->
                     Mul(portfolio[i].metrics.capRate, portfolio[i].shared.purchasePrice)]),
           totalValue(portfolio))
  ELSE Zero

avgCapRate(portfolio) ==
  IF Len(portfolio) > 0
  THEN Div(SumSeq([i \in 1..Len(portfolio) |-> portfolio[i].metrics.capRate]),
           Num(Len(portfolio)))
  ELSE Zero

typeCount(portfolio, type) == Cardinality({i \in 1..Len(portfolio) : portfolio[i].type = type})

portfolioValuation(portfolio, rate) == calculateValuation(totalAnnualNOI(portfolio), rate)

equityGain(portfolio, rate) == Sub(portfolioValuation(portfolio, rate), totalValue(portfolio))

\* The record returned by the totals memo of Dashboard.
DashboardTotals(portfolio, rate) ==
  [ totalValue           |-> totalValue(portfolio),
    totalCashInvested    |-> totalCashInvested(portfolio),
    totalAnnualCashFlow  |-> totalAnnualCashFlow(portfolio),
    totalMonthlyCashFlow |-> totalMonthlyCashFlow(portfolio),
    totalAnnualNOI       |-> totalAnnualNOI(portfolio),
    avgCoC               |-> avgCoC(portfolio),
    avgCapRate           |-> avgCapRate(portfolio),
    ltrCount             |-> typeCount(portfolio, "LTR"),
    strCount             |-> typeCount(portfolio, "STR"),
    portfolioValuation   |-> portfolioValuation(portfolio, rate),
    equityGain           |-> equityGain(portfolio, rate) ]

\* exportDashboardPDF: the investor configuration
investors ==
  << [name |-> "Investor A", stake |-> Frac(1, 4)],
     [name |-> "Investor B", stake |-> Frac(1, 4)],
     [name |-> "Investor C", stake |-> Frac(1, 4)],
     [name |-> "Investor D", stake |-> Frac(1, 4)] >>

\* exportDashboardPDF: the portfolio metrics
exportTotalEquity(properties) ==
  Sub(SumSeq([i \in 1..Len(properties) |-> properties[i].shared.purchasePrice]),
      SumSeq([i \in 1..Len(properties) |-> properties[i].shared.loanAmount]))

exportAnnualNOI(properties) ==
  Mul(SumSeq([i \in 1..Len(properties) |-> properties[i].metrics.netMonthlyIncome]), Num(12))

exportAvgCoC(properties) ==
  IF Len(properties) > 0
  THEN Div(SumSeq([i \in 1..Len(properties) |-> properties[i].metrics.cashOnCashReturn]),
           Num(Len(properties)))
  ELSE Zero

exportAvgCapRate(properties) ==
  IF Len(properties) > 0
  THEN Div(SumSeq([i \in 1..Len(properties) |-> properties[i].metrics.capRate]),
           Num(Len(properties)))
  ELSE Zero

\* Mutant: only a market cap rate of exactly 0 is guarded in the export.
exportEstimatedValue_guardZeroOnly(properties, rate) ==
  IF IsZero(rate) THEN Zero ELSE Div(exportAnnualNOI(properties), Div(rate, Num(100)))

exportEstimatedValue(properties, rate) ==
  IF GtZero(rate) THEN Div(exportAnnualNOI(properties), Div(rate, Num(100))) ELSE Zero

exportTotals(properties, rate) ==
  [ totalPurchasePrice |->
      SumSeq([i \in 1..Len(properties) |-> properties[i].shared.purchasePrice]),
    totalLoanAmount    |->
      SumSeq([i \in 1..Len(properties) |-> properties[i].shared.loanAmount]),
    totalEquity        |-> exportTotalEquity(properties),
    totalCashInvested  |->
      SumSeq([i \in 1..Len(properties) |-> properties[i].metrics.initialCashInvested]),
    grossMonthlyIncome |->
      SumSeq([i \in 1..Len(properties) |-> properties[i].metrics.grossMonthlyIncome]),
    netMonthlyIncome   |->
      SumSeq([i \in 1..Len(properties) |-> properties[i].metrics.netMonthlyIncome]),
    monthlyMortgage    |->
      SumSeq([i \in 1..Len(properties) |-> properties[i].metrics.monthlyMortgagePayment]),
    monthlyExpenses    |->
      SumSeq([i \in 1..Len(properties) |-> properties[i].metrics.totalMonthlyExpenses]),
    netMonthlyCashFlow |->
      SumSeq([i \in 1..Len(properties) |-> properties[i].metrics.netMonthlyCashFlow]),
    annualCashFlow     |->
      SumSeq([i \in 1..Len(properties) |-> properties[i].metrics.annualNetCashFlow]),
    annualNOI          |-> exportAnnualNOI(properties),
    avgCoC             |-> exportAvgCoC(properties),
    avgCapRate         |-> exportAvgCapRate(properties),
    estimatedValue     |-> exportEstimatedValue(properties, rate),
    unrealizedGain     |->
      Sub(exportEstimatedValue(properties, rate),
          SumSeq([i \in 1..Len(properties) |-> properties[i].shared.purchasePrice])),
    ltrCount           |-> typeCount(properties, "LTR"),
    strCount           |-> typeCount(properties, "STR") ]

\* Mutant: the equity column is split from the total purchase price.
investorRow_equityFromPrice(inv, t) ==
  [ name         |-> inv.name,
    ownership    |-> formatPercent(Mul(inv.stake, Num(100))),
    equity       |-> formatCurrency(Mul(t.totalPurchasePrice, inv.stake)),
    cashInvested |-> formatCurrency(Mul(t.totalCashInvested, inv.stake)),
    monthlyCF    |-> formatCurrency(Mul(t.netMonthlyCashFlow, inv.stake)),
    annualCF     |-> formatCurrency(Mul(t.annualCashFlow, inv.stake)),
    valueShare   |-> formatCurrency(Mul(t.estimatedValue, inv.stake)) ]

\* One body row of the investor distribution table; t: the portfolio metrics.
investorRow(inv, t) ==
  [ name         |-> inv.name,
    ownership    |-> formatPercent(Mul(inv.stake, Num(100))),
    equity       |-> formatCurrency(Mul(t.totalEquity, inv.stake)),
    cashInvested |-> formatCurrency(Mul(t.totalCashInvested, inv.stake)),
    monthlyCF    |-> formatCurrency(Mul(t.netMonthlyCashFlow, inv.stake)),
    annualCF     |-> formatCurrency(Mul(t.annualCashFlow, inv.stake)),
    valueShare   |-> formatCurrency(Mul(t.estimatedValue, inv.stake)) ]

\* The TOTAL row of the investor distribution table.
investorFoot(t) ==
  [ name         |-> "TOTAL",
    ownership    |-> "100%",
    equity       |-> formatCurrency(t.totalEquity),
    cashInvested |-> formatCurrency(t.totalCashInvested),
    monthlyCF    |-> formatCurrency(t.netMonthlyCashFlow),
    annualCF     |-> formatCurrency(t.annualCashFlow),
    valueShare   |-> formatCurrency(t.estimatedValue) ]

investorTable(t) ==
  [ body |-> [i \in 1..Len(investors) |-> investorRow(investors[i], t)],
    foot |-> investorFoot(t) ]

\* What exportDashboardPDF puts into the document: the portfolio metrics and the
\* investor distribution table.
exportDashboardPDF(properties, rate) ==
  [ totals |-> exportTotals(properties, rate),
    investorTable |-> investorTable(exportTotals(properties, rate)) ]

----------------------------------------------------------------------------
(* The state of the other components while none of them runs *)

\* let lastError: Error | null = null
NoError == [status |-> 0, message |-> <<>>]

NoOutcome == [kind |-> "pending"]

NoRetry ==
  [pc |-> "idle", maxRetries |-> 0, attempt |-> 0, calls |-> 0, lastError |-> NoError,
   errors |-> <<>>, delays |-> <<>>, outcome |-> NoOutcome]

\* EasyViz as mounted: no panel, no layout item, no file being read.
NoViz ==
  [panels |-> <<>>, layout |-> <<>>, choosing |-> FALSE, reading |-> 0, started |-> 0,
   toast |-> "none"]

\* DEFAULT_LTR_PROPERTY: the empty form.  The id '' is written 0.
DEFAULT_LTR_PROPERTY ==
  [type |-> "LTR",
   shared |-> [id |-> 0, purchasePrice |-> Zero, downpayment |-> Zero, loanAmount |-> Zero,
               loanRemaining |-> Zero, interestRate |-> Zero, loanTermYears |-> Num(30),
               closingCosts |-> Zero],
   ltr |-> <<[grossRentPerMonth |-> Zero, numberOfUnits |-> Num(1), pmFeePercent |-> Num(9),
              annualPropertyTax |-> Zero, annualInsurance |-> Zero,
              monthlyRepairReserve |-> Num(50)]>>,
   str |-> <<>>,
   manualExpenses |-> << <<>> >>]

\* Home and InputForm as mounted with nothing in localStorage.  A missing
\* portfolio id (null) is written 0.
NoApp ==
  [properties |-> <<>>, marketCapRate |-> Num(6), savedPortfolios |-> <<>>,
   localStorage |-> <<>>, currentLoadedPortfolioId |-> 0, portfolioName |-> "",
   formData |-> DEFAULT_LTR_PROPERTY, canUndo |-> FALSE, toast |-> "none",
   propertyIds |-> 0, portfolioIds |-> 0, steps |-> 0]

----------------------------------------------------------------------------
(* The engine applied to one property *)

Init ==
  /\ property \in Properties
  /\ metrics = NoMetrics
  /\ call = NoCall
  /\ result = NoResult
  /\ pc = "input"
  /\ retry = NoRetry
  /\ viz = NoViz
  /\ app = NoApp

\* metrics: calculateMetrics(property)
Calculate ==
  /\ pc = "input"
  /\ metrics' = calculateMetrics(property)
  /\ pc' = "done"
  /\ UNCHANGED <<property, call, result, retry, viz, app>>

Next == Calculate

Spec == Init /\ [][Next]_vars

----------------------------------------------------------------------------
(* The aggregation functions applied to one portfolio *)

InitAggregates ==
  /\ property = NoProperty
  /\ metrics = NoMetrics
  /\ call \in Calls
  /\ result = NoResult
  /\ pc = "input"
  /\ retry = NoRetry
  /\ viz = NoViz
  /\ app = NoApp

CallCalculateValuation ==
  /\ pc = "input"
  /\ call.fn = "calculateValuation"
  /\ result' = [fn |-> call.fn, value |-> calculateValuation(call.annualNOI, call.marketCapRate)]
  /\ pc' = "done"
  /\ UNCHANGED <<property, metrics, call, retry, viz, app>>

\* totals: the useMemo of Dashboard
RenderDashboard ==
  /\ pc = "input"
  /\ call.fn = "Dashboard"
  /\ result' = [fn |-> call.fn, totals |-> DashboardTotals(call.portfolio, call.marketCapRate)]
  /\ pc' = "done"
  /\ UNCHANGED <<property, metrics, call, retry, viz, app>>

CallExportDashboardPDF ==
  /\ pc = "input"
  /\ call.fn = "exportDashboardPDF"
  /\ result' = [fn |-> call.fn, doc |-> exportDashboardPDF(call.properties, call.marketCapRate)]
  /\ pc' = "done"
  /\ UNCHANGED <<property, metrics, call, retry, viz, app>>

NextAggregates == CallCalculateValuation \/ RenderDashboard \/ CallExportDashboardPDF

SpecAggregates == InitAggregates /\ [][NextAggregates]_vars

----------------------------------------------------------------------------
(* retryWithBackoff (server/routes.ts).  An error is a record of its status  *)
(* and its message, the message being the sequence of its words; the         *)
(* promise returned by fn settles either way, and the value it resolves to   *)
(* is the number of the call that produced it.                               *)

\* Largest maxRetries argument.
MaxRetries == 3

initialDelayMs == 1000

\* message.includes(word)
includes(message, word) == \E i \in 1..Len(message) : message[i] = word

Errors ==
  {[status |-> 429, message |-> <<"Too", "Many", "Requests">>],
   [status |-> 500, message |-> <<"Error", "429">>],
   [status |-> 503, message |-> <<"quota", "exceeded">>],
   [status |-> 0, message |-> <<"rate limit", "reached">>],
   [status |-> 500, message |-> <<"Internal", "error">>],
   [status |-> 0, message |-> <<>>]}

isRateLimited(error) ==
  \/ error.status = 429
  \/ includes(error.message, "429")
  \/ includes(error.message, "quota")
  \/ includes(error.message, "rate limit")

\* if (!isRateLimited || attempt === maxRetries) throw error
rethrows_onlyOnLastAttempt(error, attempt, maxRetries) == attempt = maxRetries

rethrows(error, attempt, maxRetries) == ~isRateLimited(error) \/ attempt = maxRetries

\* initialDelayMs * Math.pow(2, attempt)
delayMs(attempt) == initialDelayMs * (2 ^ attempt)

InitRetry ==
  /\ property = NoProperty
  /\ metrics = NoMetrics
  /\ call = NoCall
  /\ result = NoResult
  /\ pc = "input"
  /\ viz = NoViz
  /\ app = NoApp
  /\ \E m \in (-1)..MaxRetries : retry = [NoRetry EXCEPT !.pc = "loop", !.maxRetries = m]

\* attempt <= maxRetries: return await fn()
CallFn ==
  /\ retry.pc = "loop"
  /\ retry.attempt <= retry.maxRetries
  /\ retry' = [retry EXCEPT !.pc = "calling", !.calls = @ + 1]
  /\ UNCHANGED <<property, metrics, call, result, pc, viz, app>>

\* fn() resolves: retryWithBackoff returns its value
FnResolves ==
  /\ retry.pc = "calling"
  /\ retry' = [retry EXCEPT !.pc = "returned",
                            !.outcome = [kind |-> "value", value |-> retry.calls]]
  /\ UNCHANGED <<property, metrics, call, result, pc, viz, app>>

\* fn() rejects: the catch block
FnRejects ==
  /\ retry.pc = "calling"
  /\ \E error \in Errors :
       retry' =
         IF rethrows(error, retry.attempt, retry.maxRetries)
           THEN [retry EXCEPT !.pc = "thrown", !.lastError = error,
                              !.errors = Append(@, error),
                              !.outcome = [kind |-> "error", error |-> error]]
           ELSE [retry EXCEPT !.pc = "sleeping", !.lastError = error,
                              !.errors = Append(@, error),
                              !.delays = Append(@, delayMs(retry.attempt))]
  /\ UNCHANGED <<property, metrics, call, result, pc, viz, app>>

\* the timer fires: attempt++
TimerFires ==
  /\ retry.pc = "sleeping"
  /\ retry' = [retry EXCEPT !.pc = "loop", !.attempt = @ + 1]
  /\ UNCHANGED <<property, metrics, call, result, pc, viz, app>>

\* the loop is over: throw lastError
ThrowLastError ==
  /\ retry.pc = "loop"
  /\ retry.attempt > retry.maxRetries
  /\ retry' = [retry EXCEPT !.pc = "thrown",
                            !.outcome = [kind |-> "error", error |-> retry.lastError]]
  /\ UNCHANGED <<property, metrics, call, result, pc, viz, app>>

NextRetry == CallFn \/ FnResolves \/ FnRejects \/ TimerFires \/ ThrowLastError

\* Every promise the function awaits settles: fn's own and the timer's.
SpecRetry == InitRetry /\ [][NextRetry]_vars /\ WF_vars(NextRetry)

----------------------------------------------------------------------------
(* The panels of EasyViz (client/src/components/EasyViz.tsx).  A panel and   *)
(* its layout item are modelled by the panel's id; panels and layout are the *)
(* two lists of the component's state.  Every file of an upload gets its own *)
(* FileReader, whose onload handler runs later, one reader at a time.        *)

\* Most files in one selection.
MaxFiles == 7

\* Most readers started in one run.
MaxReaders == 8

\* const remainingSlots = 6 - panels.length
panelLimit == 6

Min(a, b) == IF a <= b THEN a ELSE b

Ids(items) == {items[i] : i \in 1..Len(items)}

\* prev.filter(p => p.id !== id)
Without(items, id) == SelectSeq(items, LAMBDA x : x # id)

InitViz ==
  /\ property = NoProperty
  /\ metrics = NoMetrics
  /\ call = NoCall
  /\ result = NoResult
  /\ pc = "input"
  /\ retry = NoRetry
  /\ app = NoApp
  /\ viz = NoViz

\* The upload button, enabled below the limit, opens the file dialog.
ClickUpload ==
  /\ ~viz.choosing
  /\ Len(viz.panels) < panelLimit
  /\ viz' = [viz EXCEPT !.choosing = TRUE]
  /\ UNCHANGED <<property, metrics, call, result, pc, retry, app>>

\* The change event of the file input with n files selected.
handleFileUpload ==
  /\ viz.choosing
  /\ \E n \in 1..MaxFiles :
       IF panelLimit - Len(viz.panels) <= 0
         THEN viz' = [viz EXCEPT !.choosing = FALSE, !.toast = "Maximum panels reached"]
         ELSE /\ viz.started + Min(n, panelLimit - Len(viz.panels)) <= MaxReaders
              /\ viz' = [viz EXCEPT !.choosing = FALSE,
                                    !.reading = @ + Min(n, panelLimit - Len(viz.panels)),
                                    !.started = @ + Min(n, panelLimit - Len(viz.panels))]
  /\ UNCHANGED <<property, metrics, call, result, pc, retry, app>>

\* reader.onload of a file with fewer than two lines
ReaderLoadsInvalid ==
  /\ viz.reading > 0
  /\ viz' = [viz EXCEPT !.reading = @ - 1, !.toast = "Invalid CSV"]
  /\ UNCHANGED <<property, metrics, call, result, pc, retry, app>>

\* reader.onload of a CSV file: the new panel has the id crypto.randomUUID()
\* returns, here the number of the reader that completes.
ReaderLoads ==
  /\ viz.reading > 0
  /\ viz' = [viz EXCEPT !.reading = @ - 1,
                        !.panels = Append(@, viz.started - viz.reading + 1),
                        !.layout = Append(@, viz.started - viz.reading + 1),
                        !.toast = "CSV imported"]
  /\ UNCHANGED <<property, metrics, call, result, pc, retry, app>>

removePanel ==
  /\ \E id \in Ids(viz.panels) :
       viz' = [viz EXCEPT !.panels = Without(@, id), !.layout = Without(@, id)]
  /\ UNCHANGED <<property, metrics, call, result, pc, retry, app>>

clearCurrentDashboard ==
  /\ viz.panels # <<>>
  /\ viz' = [viz EXCEPT !.panels = <<>>, !.layout = <<>>]
  /\ UNCHANGED <<property, metrics, call, result, pc, retry, app>>

NextViz ==
  \/ ClickUpload
  \/ handleFileUpload
  \/ ReaderLoadsInvalid
  \/ ReaderLoads
  \/ removePanel
  \/ clearCurrentDashboard

SpecViz == InitViz /\ [][NextViz]_vars

----------------------------------------------------------------------------
(* The portfolio of Home (client/src/pages/home.tsx) and the InputForm that  *)
(* feeds it.  crypto.randomUUID() returns an id never returned before: the   *)
(* ids are numbered in the order they are issued.  localStorage holds the    *)
(* JSON text of the saved list, modelled by the value JSON.parse returns     *)
(* for it.                                                                   *)

MAX_SAVED_PORTFOLIOS == 5

\* Most Add Property submits in one run.
MaxSubmits == 2

\* Most user operations in one run.
MaxSteps == 8

\* One more user operation has been handled.
tick(a) == [a EXCEPT !.steps = @ + 1]

\* JSON null
Null == [null |-> TRUE]

\* JSON.stringify writes null, and a number that is not finite, as null.
jsonNumber(x) == IF x = Null THEN Null ELSE IF IsFinite(x) THEN x ELSE Null

jsonNumbers(rec) == [f \in DOMAIN rec |-> jsonNumber(rec[f])]

\* JSON.parse(JSON.stringify(entry)) of a PropertyAnalysis
jsonEntry(entry) ==
  [entry EXCEPT !.metrics = jsonNumbers(@),
                !.shared = [id |-> @.id] @@ jsonNumbers([f \in DOMAIN @ \ {"id"} |-> @[f]])]

jsonPortfolio(portfolio) ==
  [portfolio EXCEPT !.marketCapRate = jsonNumber(@),
                    !.properties = [i \in 1..Len(@) |-> jsonEntry(@[i])]]

\* JSON.parse(JSON.stringify(updated))
json(saved) == [i \in 1..Len(saved) |-> jsonPortfolio(saved[i])]

\* What the user types into the form: a rental bought with cash, and a
\* financed one whose loan term is left at 0.
FormInputs ==
  {sampleLTR,
   [sampleLTR EXCEPT !.shared.loanAmount = Num(1050), !.shared.interestRate = Num(60)]}

\* The positions of the market cap rate slider the user moves it to.
SliderRates == {Num(6), Frac(25, 4)}

\* The form after the user has overwritten its inputs with q.
edited(formData, q) ==
  [formData EXCEPT !.type = q.type, !.ltr = q.ltr, !.str = q.str,
                   !.manualExpenses = q.manualExpenses,
                   !.shared = [id |-> @.id] @@ q.shared]

\* Math.round of a finite amount
MathRound(x) == Num((2 * x.n + x.d) \div (2 * x.d))

\* The effect on formData.shared.purchasePrice: down payment 20 %, loan the
\* rest, closing costs 3 %, insurance 0.35 % of the price.
autoFromPrice(form) ==
  [form EXCEPT
     !.shared.downpayment = MathRound(Mul(form.shared.purchasePrice, Frac(1, 5))),
     !.shared.loanAmount =
        Sub(form.shared.purchasePrice, MathRound(Mul(form.shared.purchasePrice, Frac(1, 5)))),
     !.shared.loanRemaining =
        Sub(form.shared.purchasePrice, MathRound(Mul(form.shared.purchasePrice, Frac(1, 5)))),
     !.shared.closingCosts = MathRound(Mul(form.shared.purchasePrice, Frac(3, 100))),
     !.ltr = IF form.type = "LTR" /\ Present(form.ltr)
               THEN <<[form.ltr[1] EXCEPT !.annualInsurance =
                         MathRound(Mul(form.shared.purchasePrice, Frac(35, 10000)))]>>
               ELSE @,
     !.str = IF form.type = "STR" /\ Present(form.str)
               THEN <<[form.str[1] EXCEPT !.annualInsurance =
                         MathRound(Mul(form.shared.purchasePrice, Frac(35, 10000)))]>>
               ELSE @]

\* The effect on formData.shared.loanAmount: annual tax 1 % of the loan.
autoFromLoan(form, loanAmount) ==
  [form EXCEPT
     !.ltr = IF form.type = "LTR" /\ Present(form.ltr)
               THEN <<[form.ltr[1] EXCEPT !.annualPropertyTax =
                         MathRound(Mul(loanAmount, Frac(1, 100)))]>>
               ELSE @,
     !.str = IF form.type = "STR" /\ Present(form.str)
               THEN <<[form.str[1] EXCEPT !.annualPropertyTax =
                         MathRound(Mul(loanAmount, Frac(1, 100)))]>>
               ELSE @]

\* if (purchasePrice > 0) in the effect that ran
autoFromPrice_if(form, changed) ==
  IF changed /\ GtZero(form.shared.purchasePrice) THEN autoFromPrice(form) ELSE form

\* if (loanAmount > 0) in the effect that ran
autoFromLoan_if(form, loanAmount, changed) ==
  IF changed /\ GtZero(loanAmount) THEN autoFromLoan(form, loanAmount) ELSE form

\* The effects that run after the form was rendered with shown and now holds
\* form: each runs when its dependency differs from the rendered one.
afterEffects(form, shown) ==
  autoFromLoan_if(
    autoFromPrice_if(form, form.shared.purchasePrice # shown.shared.purchasePrice),
    form.shared.loanAmount, form.shared.loanAmount # shown.shared.loanAmount)

\* setFormData(restored), and the effects until no dependency changes any more
settled(form, shown) ==
  autoFromLoan_if(afterEffects(form, shown),
                  afterEffects(form, shown).shared.loanAmount,
                  afterEffects(form, shown).shared.loanAmount # form.shared.loanAmount)

\* { ...formData, shared: { ...formData.shared, id: crypto.randomUUID() } }
submitted_keepsFormId(formData, uuid) == formData

submitted(formData, uuid) == [formData EXCEPT !.shared.id = uuid]

\* { ...property, metrics: calculateMetrics(property) }
analysis(prop) == [metrics |-> calculateMetrics(prop)] @@ prop

InitApp ==
  /\ property = NoProperty
  /\ metrics = NoMetrics
  /\ call = NoCall
  /\ result = NoResult
  /\ pc = "input"
  /\ retry = NoRetry
  /\ viz = NoViz
  /\ app = NoApp

\* The user fills in the form; q is what the form holds once the user has
\* overwritten what the effects filled in.
EditForm ==
  /\ app.steps < MaxSteps
  /\ \E q \in FormInputs :
       /\ edited(app.formData, q) # app.formData
       /\ app' = tick([app EXCEPT !.formData = edited(@, q)])
  /\ UNCHANGED <<property, metrics, call, result, pc, retry, viz>>

\* InputForm.handleSubmit with Home.handleAddProperty
handleSubmit ==
  /\ app.steps < MaxSteps
  /\ app.propertyIds < MaxSubmits
  /\ app' = tick([app EXCEPT !.propertyIds = @ + 1,
                        !.properties =
                          Append(@, analysis(submitted(app.formData, app.propertyIds + 1))),
                        !.canUndo = TRUE,
                        !.formData = DEFAULT_LTR_PROPERTY])
  /\ UNCHANGED <<property, metrics, call, result, pc, retry, viz>>

\* InputForm.handleUndo with Home.handleUndoLastProperty; the button is
\* rendered while canUndo.
handleUndo ==
  /\ app.steps < MaxSteps
  /\ app.canUndo
  /\ app' =
       IF app.properties = <<>>
         THEN tick([app EXCEPT !.canUndo = FALSE])
         ELSE tick([app EXCEPT !.canUndo = FALSE,
                               !.properties = SubSeq(@, 1, Len(@) - 1),
                               !.formData =
                                 settled(app.properties[Len(app.properties)], app.formData)])
  /\ UNCHANGED <<property, metrics, call, result, pc, retry, viz>>

\* The remove button of a property card or of a dashboard row.
handleRemoveProperty ==
  /\ app.steps < MaxSteps
  /\ \E i \in 1..Len(app.properties) :
       app' = tick([app EXCEPT !.properties =
                 SelectSeq(@, LAMBDA e : e.shared.id # app.properties[i].shared.id)])
  /\ UNCHANGED <<property, metrics, call, result, pc, retry, viz>>

\* The market cap rate slider of the dashboard, shown while there are properties.
setMarketCapRate ==
  /\ app.steps < MaxSteps
  /\ app.properties # <<>>
  /\ \E r \in SliderRates \ {app.marketCapRate} : app' = tick([app EXCEPT !.marketCapRate = r])
  /\ UNCHANGED <<property, metrics, call, result, pc, retry, viz>>

\* The menu item New Portfolio.
NewPortfolio ==
  /\ app.steps < MaxSteps
  /\ app' = tick([app EXCEPT !.properties = <<>>, !.currentLoadedPortfolioId = 0,
                        !.portfolioName = "", !.toast = "New portfolio"])
  /\ UNCHANGED <<property, metrics, call, result, pc, retry, viz>>

\* The name field of the save dialog.
setPortfolioName ==
  /\ app.steps < MaxSteps
  /\ app.portfolioName = ""
  /\ app' = tick([app EXCEPT !.portfolioName = "Portfolio"])
  /\ UNCHANGED <<property, metrics, call, result, pc, retry, viz>>

\* portfolio after savePortfolio has updated it
updatedPortfolio(portfolio) ==
  [portfolio EXCEPT !.name = app.portfolioName, !.properties = app.properties,
                    !.marketCapRate = app.marketCapRate]

\* savedPortfolios.map(p => p.id === currentLoadedPortfolioId ? {...} : p)
updatedList ==
  [i \in 1..Len(app.savedPortfolios) |->
     IF app.savedPortfolios[i].id = app.currentLoadedPortfolioId
       THEN updatedPortfolio(app.savedPortfolios[i])
       ELSE app.savedPortfolios[i]]

newPortfolio ==
  [id |-> app.portfolioIds + 1, name |-> app.portfolioName,
   properties |-> app.properties, marketCapRate |-> app.marketCapRate]

\* const isUpdating = currentLoadedPortfolioId && !saveAsNew
isUpdating(saveAsNew) == app.currentLoadedPortfolioId # 0 /\ ~saveAsNew

\* !isUpdating && savedPortfolios.length >= MAX_SAVED_PORTFOLIOS
limitReached_offByOne(updating, count) == ~updating /\ count > MAX_SAVED_PORTFOLIOS

limitReached(updating, count) == ~updating /\ count >= MAX_SAVED_PORTFOLIOS

\* savePortfolio(saveAsNew): Save Portfolio / Update Portfolio and Save as New
savePortfolio ==
  /\ app.steps < MaxSteps
  /\ \E saveAsNew \in BOOLEAN :
       IF app.portfolioName = ""
         THEN app' = tick([app EXCEPT !.toast = "Name required"])
       ELSE IF app.properties = <<>>
         THEN app' = tick([app EXCEPT !.toast = "No properties"])
       ELSE IF limitReached(isUpdating(saveAsNew), Len(app.savedPortfolios))
         THEN app' = tick([app EXCEPT !.toast = "Limit reached"])
       ELSE IF isUpdating(saveAsNew)
         THEN app' = tick([app EXCEPT !.savedPortfolios = updatedList,
                                 !.localStorage = json(updatedList),
                                 !.toast = "Portfolio updated"])
       ELSE app' = tick([app EXCEPT !.portfolioIds = @ + 1,
                                  !.savedPortfolios = Append(@, newPortfolio),
                                  !.localStorage = json(Append(app.savedPortfolios, newPortfolio)),
                                  !.currentLoadedPortfolioId = app.portfolioIds + 1,
                                  !.toast = "Portfolio saved"])
  /\ UNCHANGED <<property, metrics, call, result, pc, retry, viz>>

\* The Load button of a saved portfolio.
loadPortfolio ==
  /\ app.steps < MaxSteps
  /\ \E i \in 1..Len(app.savedPortfolios) :
       app' = tick([app EXCEPT !.properties = app.savedPortfolios[i].properties,
                          !.marketCapRate = app.savedPortfolios[i].marketCapRate,
                          !.currentLoadedPortfolioId = app.savedPortfolios[i].id,
                          !.portfolioName = app.savedPortfolios[i].name,
                          !.toast = "Portfolio loaded"])
  /\ UNCHANGED <<property, metrics, call, result, pc, retry, viz>>

\* The delete button of a saved portfolio.
deletePortfolio ==
  /\ app.steps < MaxSteps
  /\ \E i \in 1..Len(app.savedPortfolios) :
       LET updated == SelectSeq(app.savedPortfolios,
                                LAMBDA p : p.id # app.savedPortfolios[i].id)
       IN  app' = tick([app EXCEPT !.savedPortfolios = updated,
                              !.localStorage = json(updated),
                              !.toast = "Portfolio deleted"])
  /\ UNCHANGED <<property, metrics, call, result, pc, retry, viz>>

\* The page is loaded again: every useState starts over and the effect reads
\* the saved list back from localStorage.
Reload ==
  /\ app.steps < MaxSteps
  /\ app' = tick([NoApp EXCEPT !.savedPortfolios = app.localStorage,
                          !.localStorage = app.localStorage,
                          !.propertyIds = app.propertyIds,
                          !.portfolioIds = app.portfolioIds,
                          !.steps = app.steps])
  /\ UNCHANGED <<property, metrics, call, result, pc, retry, viz>>

NextApp ==
  \/ EditForm
  \/ handleSubmit
  \/ handleUndo
  \/ handleRemoveProperty
  \/ setMarketCapRate
  \/ NewPortfolio
  \/ setPortfolioName
  \/ savePortfolio
  \/ loadPortfolio
  \/ deletePortfolio
  \/ Reload

SpecApp == InitApp /\ [][NextApp]_vars

----------------------------------------------------------------------------
(* Claims about calculateMetrics *)

Done == pc = "done"

sh == property.shared

\* The sum of the manual expense rows that count as CapEx.
CapExSum ==
  Add(SumCost(manualExpenses(property), "IMMEDIATE"), SumCost(manualExpenses(property), "YEAR_1"))

\* What the inputs say about the active loan balance.
BalancePositive == GtZero(sh.loanRemaining) \/ GtZero(sh.loanAmount)

Fields == DOMAIN NoMetrics

\* v is the value of some field of the returned record
Readable(v) == \E f \in Fields : metrics[f] = v

\* the returned payment of the property with one shared field replaced
PaymentWith(field, v) ==
  calculateMetrics([property EXCEPT !.shared[field] = v]).monthlyMortgagePayment

\* C1: when the manual expenses sum to more than 0, the returned initialCashInvested,
\* cashOnCashReturn and capRate equal the returned adjusted* fields, and the returned
\* netMonthlyCashFlow and annualNetCashFlow are the raw values less year1CapEx/12 and
\* less year1CapEx: all five primary fields are switched together.
C1_AllFiveSwitch ==
  (Done /\ GtZero(CapExSum)) =>
    LET c == locals(property)
    IN  /\ metrics.initialCashInvested = metrics.adjustedInitialCashInvested
        /\ metrics.cashOnCashReturn = metrics.adjustedCashOnCashReturn
        /\ metrics.capRate = metrics.adjustedCapRate
        /\ metrics.netMonthlyCashFlow =
             Round2(Sub(c.netMonthlyCashFlow, Div(c.year1CapEx, Num(12))))
        /\ metrics.annualNetCashFlow = Round2(Sub(c.annualNetCashFlow, c.year1CapEx))

\* A single IMMEDIATE row has moved the primary initial cash and cap rate off their raw values.
C1_Witness ==
  /\ Done
  /\ Len(manualExpenses(property)) = 1
  /\ manualExpenses(property)[1].timing = "IMMEDIATE"
  /\ metrics.initialCashInvested # Round2(locals(property).initialCashInvested)
  /\ metrics.capRate # Round2(locals(property).capRate)
  /\ metrics.capRate = metrics.adjustedCapRate

\* C2: with no manual expenses (absent or empty) the adjusted branch is not selected and the
\* five primary fields are the raw values: net monthly income minus mortgage, down payment
\* plus closing costs, and the ratios computed from them.
C2_RawWithoutExpenses ==
  (Done /\ manualExpenses(property) = <<>>) =>
    LET c == locals(property)
        rawMonthly == Sub(c.netMonthlyIncome, c.monthlyMortgagePayment)
        rawAnnual  == Mul(rawMonthly, Num(12))
        rawInitial == Add(downPayment(sh), sh.closingCosts)
        rawCoC     == IF GtZero(rawInitial)
                      THEN Mul(Div(rawAnnual, rawInitial), Num(100)) ELSE Zero
        rawCap     == IF GtZero(sh.purchasePrice)
                      THEN Mul(Div(Mul(c.netMonthlyIncome, Num(12)), sh.purchasePrice), Num(100))
                      ELSE Zero
    IN  /\ ~c.hasManualCapEx
        /\ metrics.netMonthlyCashFlow = Round2(rawMonthly)
        /\ metrics.annualNetCashFlow = Round2(rawAnnual)
        /\ metrics.initialCashInvested = Round2(rawInitial)
        /\ metrics.cashOnCashReturn = Round2(rawCoC)
        /\ metrics.capRate = Round2(rawCap)

\* A financed, income-producing property without manual expenses has been computed.
C2_Witness ==
  /\ Done
  /\ property.manualExpenses = <<>>
  /\ GtZero(metrics.monthlyMortgagePayment) /\ IsFinite(metrics.monthlyMortgagePayment)
  /\ GtZero(metrics.netMonthlyIncome)
  /\ GtZero(metrics.capRate)
  /\ metrics.cashOnCashReturn # Zero

\* C3 (as claimed): whichever variant is final, both the raw and the adjusted initial cash
\* invested, cash-on-cash return and cap rate can be read from the returned record.
C3_RawAndAdjustedReadable ==
  Done =>
    LET c == locals(property)
    IN  /\ Readable(Round2(c.initialCashInvested))
        /\ Readable(Round2(c.cashOnCashReturn))
        /\ Readable(Round2(c.capRate))
        /\ Readable(Round2(c.adjustedInitialCashInvested))
        /\ Readable(Round2(c.adjustedCashOnCashReturn))
        /\ Readable(Round2(c.adjustedCapRate))

\* C3 (amended): the record always holds the adjusted values, in the adjusted* fields; the
\* primary fields hold the raw values only when totalManualCapEx is 0, and repeat the
\* adjusted values when it is greater than 0.
C3_AdjustedAlwaysRawOnlyWithoutCapEx ==
  Done =>
    LET c == locals(property)
    IN  /\ metrics.adjustedInitialCashInvested =
             Round2(Add(c.initialCashInvested, c.immediateCapEx))
        /\ metrics.adjustedCashOnCashReturn = Round2(c.adjustedCashOnCashReturn)
        /\ metrics.adjustedCapRate = Round2(c.adjustedCapRate)
        /\ IF GtZero(CapExSum)
           THEN /\ metrics.initialCashInvested = metrics.adjustedInitialCashInvested
                /\ metrics.cashOnCashReturn = metrics.adjustedCashOnCashReturn
                /\ metrics.capRate = metrics.adjustedCapRate
           ELSE /\ metrics.initialCashInvested = Round2(c.initialCashInvested)
                /\ metrics.cashOnCashReturn = Round2(c.cashOnCashReturn)
                /\ metrics.capRate = Round2(c.capRate)

\* With manual CapEx, no field of the record holds the raw cap rate or raw initial cash.
C3_Witness ==
  /\ Done
  /\ GtZero(CapExSum)
  /\ ~Readable(Round2(locals(property).capRate))
  /\ ~Readable(Round2(locals(property).initialCashInvested))

\* C4 (as claimed): for non-negative inputs, zero allowed in any field, every field of the
\* returned record is a finite number (no division by zero).
C4_AllFieldsFinite == Done => \A f \in Fields : IsFinite(metrics[f])

\* C5: with the detail payload missing or not matching the type tag, grossMonthlyIncome,
\* totalMonthlyExpenses and netMonthlyIncome are 0 and the raw net monthly cash flow is
\* minus the mortgage payment.
C5_MissingDetailIsZero ==
  (/\ Done
   /\ ~(property.type = "LTR" /\ Present(property.ltr))
   /\ ~(property.type = "STR" /\ Present(property.str))) =>
    LET c == locals(property)
    IN  /\ metrics.grossMonthlyIncome = Zero
        /\ metrics.totalMonthlyExpenses = Zero
        /\ metrics.netMonthlyIncome = Zero
        /\ metrics.annualGrossIncome = Zero
        /\ c.netMonthlyCashFlow = Neg(c.monthlyMortgagePayment)
        /\ (manualExpenses(property) = <<>> =>
              metrics.netMonthlyCashFlow = Round2(Neg(c.monthlyMortgagePayment)))

\* A payload of the other variant is present, and a mortgage is being paid.
C5_Witness ==
  /\ Done
  /\ property.type = "LTR" /\ ~Present(property.ltr) /\ Present(property.str)
  /\ metrics.grossMonthlyIncome = Zero
  /\ GtZero(metrics.monthlyMortgagePayment) /\ IsFinite(metrics.monthlyMortgagePayment)
  /\ metrics.netMonthlyCashFlow = Neg(metrics.monthlyMortgagePayment)

\* C6 (as claimed): the returned payment is 0 when the rate or the active balance is 0,
\* and strictly positive when rate, balance and term are all positive.
C6_ZeroOrStrictlyPositive ==
  Done =>
    /\ (sh.interestRate = Zero \/ ~BalancePositive) => metrics.monthlyMortgagePayment = Zero
    /\ (GtZero(sh.interestRate) /\ BalancePositive /\ GtZero(sh.loanTermYears)) =>
         GtZero(metrics.monthlyMortgagePayment)

\* C6 (amended): the returned payment is 0 when the rate or the active balance is 0; when
\* rate, balance and term are all positive it is never negative, and it is strictly
\* positive whenever the payment before rounding is at least half a cent.
C6_ZeroOrPositiveFromHalfCent ==
  Done =>
    /\ (sh.interestRate = Zero \/ ~BalancePositive) => metrics.monthlyMortgagePayment = Zero
    /\ (GtZero(sh.interestRate) /\ BalancePositive /\ GtZero(sh.loanTermYears)) =>
         /\ Leq(Zero, metrics.monthlyMortgagePayment)
         /\ Leq(Frac(1, 200), monthlyMortgagePayment(sh)) =>
              GtZero(metrics.monthlyMortgagePayment)

\* Rate, balance and term are positive, and the returned payment is 0.00.
C6_Witness ==
  /\ Done
  /\ GtZero(sh.interestRate) /\ BalancePositive /\ GtZero(sh.loanTermYears)
  /\ GtZero(monthlyMortgagePayment(sh))
  /\ metrics.monthlyMortgagePayment = Zero

\* C7: the principal is loanRemaining when it is > 0 and loanAmount otherwise: with
\* loanRemaining > 0 the loanAmount has no effect on the payment, and with loanRemaining = 0
\* the payment is the one of a loan whose balance is loanAmount.
C7_ActivePrincipal ==
  Done =>
    /\ GtZero(sh.loanRemaining) =>
         \A la \in LoanAmounts : PaymentWith("loanAmount", la) = metrics.monthlyMortgagePayment
    /\ sh.loanRemaining = Zero =>
         PaymentWith("loanRemaining", sh.loanAmount) = metrics.monthlyMortgagePayment

\* No remaining balance is stated and a payment on the original loan amount is returned.
C7_Witness ==
  /\ Done
  /\ sh.loanRemaining = Zero /\ GtZero(sh.loanAmount)
  /\ GtZero(metrics.monthlyMortgagePayment) /\ IsFinite(metrics.monthlyMortgagePayment)

\* C8 (as claimed): for fixed principal and term the returned payment is monotonically
\* non-decreasing in interestRate over 0..100.
C8_MonotoneInRate ==
  Done =>
    \A r \in InterestRates :
      Leq(sh.interestRate, r) => Leq(metrics.monthlyMortgagePayment, PaymentWith("interestRate", r))

\* C9: for an LTR property with its payload, grossMonthlyIncome = rent x units,
\* totalMonthlyExpenses = income x pmFee/100 + tax/12 + insurance/12 + repair reserve (rent
\* 1500, 2 units, fee 10%, tax 2400, insurance 1200, reserve 50: 3000 and 650), and
\* netMonthlyIncome is their difference.
C9_LTRIncomeAndExpenses ==
  (Done /\ property.type = "LTR" /\ Present(property.ltr)) =>
    LET l == property.ltr[1]
        income == Mul(l.grossRentPerMonth, l.numberOfUnits)
        expenses == Add(Add(Add(Div(Mul(income, l.pmFeePercent), Num(100)),
                                Div(l.annualPropertyTax, Num(12))),
                            Div(l.annualInsurance, Num(12))),
                        l.monthlyRepairReserve)
    IN  /\ metrics.grossMonthlyIncome = Round2(income)
        /\ metrics.totalMonthlyExpenses = Round2(expenses)
        /\ metrics.netMonthlyIncome = Round2(Sub(income, expenses))
        /\ (/\ l.grossRentPerMonth = Num(1500) /\ l.numberOfUnits = Num(2)
            /\ l.pmFeePercent = Num(10) /\ l.annualPropertyTax = Num(2400)
            /\ l.annualInsurance = Num(1200) /\ l.monthlyRepairReserve = Num(50)) =>
             /\ metrics.grossMonthlyIncome = Num(3000)
             /\ metrics.totalMonthlyExpenses = Num(650)

\* The two-unit example has been computed: income 3000, expenses 650, net 2350.
C9_Witness ==
  /\ Done
  /\ property.type = "LTR" /\ Present(property.ltr)
  /\ property.ltr[1].numberOfUnits = Num(2)
  /\ metrics.grossMonthlyIncome = Num(3000)
  /\ metrics.totalMonthlyExpenses = Num(650)
  /\ metrics.netMonthlyIncome = Num(2350)

\* C10: for an STR property with its payload, grossMonthlyIncome = daysInMonth x
\* occupancyRate/100 x dailyRate and totalMonthlyExpenses = income x coHostFee/100 +
\* cleaningFeePerStay x avgStaysPerMonth + tax/12 + insurance/12 + monthlyUtilities.
C10_STRIncomeAndExpenses ==
  (Done /\ property.type = "STR" /\ Present(property.str)) =>
    LET s == property.str[1]
        income == Div(Mul(Mul(s.daysInMonth, s.occupancyRate), s.dailyRate), Num(100))
        expenses == Add(Add(Add(Add(Div(Mul(income, s.coHostFeePercent), Num(100)),
                                    Mul(s.cleaningFeePerStay, s.avgStaysPerMonth)),
                                Div(s.annualPropertyTax, Num(12))),
                            Div(s.annualInsurance, Num(12))),
                        s.monthlyUtilities)
    IN  /\ metrics.grossMonthlyIncome = Round2(income)
        /\ metrics.totalMonthlyExpenses = Round2(expenses)

\* An STR property booked 75% of a 30-day month at 100 a night: income 2250, expenses 860.83.
C10_Witness ==
  /\ Done
  /\ property.type = "STR" /\ Present(property.str)
  /\ metrics.grossMonthlyIncome = Num(2250)
  /\ metrics.totalMonthlyExpenses = Frac(86083, 100)

\* The same property without its manual expenses, and what calculateMetrics returns for it.
WithoutExpenses == [property EXCEPT !.manualExpenses = <<>>]

\* annual / denominator x 100, with 0 for the denominators that zeroGuard holds
RatioPercent(annual, denominator, zeroGuard) ==
  IF zeroGuard THEN Zero ELSE Mul(Div(annual, denominator), Num(100))

\* The denominators of the two cash-on-cash returns, from the inputs.
RawDenominator == Add(downPayment(sh), sh.closingCosts)

AdjustedDenominator == Add(RawDenominator, SumCost(manualExpenses(property), "IMMEDIATE"))

\* C11 (as claimed): the cash-on-cash return, raw and adjusted, is 0 when its denominator is 0
\* and annual net cash flow / denominator x 100 in every other case, a negative denominator
\* (purchasePrice - loanAmount < 0) included.
C11_RatioUnlessZeroDenominator ==
  Done =>
    LET c == locals(property)
    IN  /\ metrics.adjustedCashOnCashReturn =
             Round2(RatioPercent(c.adjustedAnnualNetCashFlow, AdjustedDenominator,
                                 IsZero(AdjustedDenominator)))
        /\ ~GtZero(CapExSum) =>
             metrics.cashOnCashReturn =
               Round2(RatioPercent(c.annualNetCashFlow, RawDenominator, IsZero(RawDenominator)))

\* C11 (amended): the cash-on-cash return, raw and adjusted, is 0 when its denominator is 0
\* or negative, and annual net cash flow / denominator x 100 when the denominator is positive.
C11_RatioOnlyForPositiveDenominator ==
  Done =>
    LET c == locals(property)
    IN  /\ metrics.adjustedCashOnCashReturn =
             Round2(RatioPercent(c.adjustedAnnualNetCashFlow, AdjustedDenominator,
                                 ~GtZero(AdjustedDenominator)))
        /\ ~GtZero(CapExSum) =>
             metrics.cashOnCashReturn =
               Round2(RatioPercent(c.annualNetCashFlow, RawDenominator, ~GtZero(RawDenominator)))

\* The loan exceeds the price, both denominators are negative, the annual cash flow is not 0
\* and both returns are 0.
C11_Witness ==
  /\ Done
  /\ GtZero(Neg(RawDenominator)) /\ GtZero(Neg(AdjustedDenominator))
  /\ IsFinite(metrics.annualNetCashFlow) /\ ~IsZero(metrics.annualNetCashFlow)
  /\ metrics.cashOnCashReturn = Zero
  /\ metrics.adjustedCashOnCashReturn = Zero

\* C12 (as claimed): with purchasePrice = 0 the returned capRate is 0, and the adjusted cap
\* rate is 0 too when immediateCapEx is 0; with purchasePrice > 0 and no manual expenses
\* capRate = netMonthlyIncome x 12 / purchasePrice x 100.
C12_ZeroPriceZeroCapRate ==
  Done =>
    LET c == locals(property)
    IN  /\ IsZero(sh.purchasePrice) =>
             /\ metrics.capRate = Zero
             /\ IsZero(SumCost(manualExpenses(property), "IMMEDIATE")) =>
                  metrics.adjustedCapRate = Zero
        /\ (GtZero(sh.purchasePrice) /\ manualExpenses(property) = <<>>) =>
             metrics.capRate =
               Round2(Mul(Div(Mul(c.netMonthlyIncome, Num(12)), sh.purchasePrice), Num(100)))

\* C12 (amended): with purchasePrice = 0 the returned capRate and the adjusted cap rate are 0
\* when immediateCapEx is 0, and both are annual NOI / immediateCapEx x 100 when
\* immediateCapEx > 0; with purchasePrice > 0 and no manual expenses
\* capRate = netMonthlyIncome x 12 / purchasePrice x 100.
C12_ZeroPriceCapRateOverImmediateCapEx ==
  Done =>
    LET c == locals(property)
        immediate == SumCost(manualExpenses(property), "IMMEDIATE")
    IN  /\ (IsZero(sh.purchasePrice) /\ IsZero(immediate)) =>
             /\ metrics.capRate = Zero
             /\ metrics.adjustedCapRate = Zero
        /\ (IsZero(sh.purchasePrice) /\ GtZero(immediate)) =>
             /\ metrics.capRate =
                  Round2(Mul(Div(Mul(c.netMonthlyIncome, Num(12)), immediate), Num(100)))
             /\ metrics.adjustedCapRate = metrics.capRate
        /\ (GtZero(sh.purchasePrice) /\ manualExpenses(property) = <<>>) =>
             metrics.capRate =
               Round2(Mul(Div(Mul(c.netMonthlyIncome, Num(12)), sh.purchasePrice), Num(100)))

\* A property bought for 0 with immediate CapEx and income has a returned capRate other than 0.
C12_Witness ==
  /\ Done
  /\ IsZero(sh.purchasePrice)
  /\ GtZero(SumCost(manualExpenses(property), "IMMEDIATE"))
  /\ GtZero(metrics.netMonthlyIncome)
  /\ GtZero(metrics.capRate) /\ IsFinite(metrics.capRate)

\* C13: raw initial cash invested is downpayment + closingCosts when downpayment > 0 and
\* (purchasePrice - loanAmount) + closingCosts when downpayment is 0; loanRemaining has no
\* effect on it; with no manual expenses it is the returned initialCashInvested.
C13_InitialCashFromOriginalLoan ==
  Done =>
    LET raw == IF GtZero(sh.downpayment)
               THEN Add(sh.downpayment, sh.closingCosts)
               ELSE Add(Sub(sh.purchasePrice, sh.loanAmount), sh.closingCosts)
    IN  /\ locals(property).initialCashInvested = raw
        /\ \A lr \in LoanRemainings :
             locals([property EXCEPT !.shared.loanRemaining = lr]).initialCashInvested = raw
        /\ manualExpenses(property) = <<>> => metrics.initialCashInvested = Round2(raw)

\* No down payment is stated, a remaining balance different from the loan amount is, and the
\* returned initial cash is price - loanAmount + closing costs.
C13_Witness ==
  /\ Done
  /\ IsZero(sh.downpayment)
  /\ GtZero(sh.loanRemaining) /\ GtZero(sh.loanAmount) /\ sh.loanRemaining # sh.loanAmount
  /\ manualExpenses(property) = <<>>
  /\ metrics.initialCashInvested = Add(Sub(sh.purchasePrice, sh.loanAmount), sh.closingCosts)
  /\ metrics.initialCashInvested #
       Add(Sub(sh.purchasePrice, sh.loanRemaining), sh.closingCosts)

\* x is a whole number of cents
IsCents(x) == IsFinite(x) /\ x.e = 0 /\ 100 % x.d = 0

Year1Sum == SumCost(manualExpenses(property), "YEAR_1")

ImmediateSum == SumCost(manualExpenses(property), "IMMEDIATE")

\* C14 (as claimed): YEAR_1 expenses totalling Y, with no IMMEDIATE ones, make the returned
\* annualNetCashFlow exactly Y lower and the returned netMonthlyCashFlow exactly Y/12 lower than
\* for the same property without them, and leave initialCashInvested and capRate unchanged.
C14_Year1LowersByExactlyY ==
  (Done /\ IsZero(ImmediateSum) /\ GtZero(Year1Sum)) =>
    LET without == calculateMetrics(WithoutExpenses)
    IN  /\ metrics.annualNetCashFlow = Sub(without.annualNetCashFlow, Year1Sum)
        /\ metrics.netMonthlyCashFlow = Sub(without.netMonthlyCashFlow, Div(Year1Sum, Num(12)))
        /\ metrics.initialCashInvested = without.initialCashInvested
        /\ metrics.capRate = without.capRate

\* C14 (amended): with YEAR_1 expenses totalling Y and no IMMEDIATE ones the returned
\* annualNetCashFlow is the unrounded annual net cash flow of the property without them less
\* Y, rounded to cents, and the returned netMonthlyCashFlow is the unrounded monthly net cash
\* flow less Y/12, rounded to cents; the returned values are exactly Y and Y/12 lower than
\* without the expenses when Y, resp. Y/12, is a whole number of cents (Y = 1200: 1200 and
\* 100); initialCashInvested and capRate are unchanged.
C14_Year1LowersBeforeRounding ==
  (Done /\ IsZero(ImmediateSum) /\ GtZero(Year1Sum)) =>
    LET without == calculateMetrics(WithoutExpenses)
        raw == locals(WithoutExpenses)
    IN  /\ metrics.annualNetCashFlow = Round2(Sub(raw.annualNetCashFlow, Year1Sum))
        /\ metrics.netMonthlyCashFlow =
             Round2(Sub(raw.netMonthlyCashFlow, Div(Year1Sum, Num(12))))
        /\ IsCents(Year1Sum) =>
             metrics.annualNetCashFlow = Sub(without.annualNetCashFlow, Year1Sum)
        /\ IsCents(Div(Year1Sum, Num(12))) =>
             metrics.netMonthlyCashFlow =
               Sub(without.netMonthlyCashFlow, Div(Year1Sum, Num(12)))
        /\ Year1Sum = Num(1200) =>
             /\ metrics.annualNetCashFlow = Sub(without.annualNetCashFlow, Num(1200))
             /\ metrics.netMonthlyCashFlow = Sub(without.netMonthlyCashFlow, Num(100))
        /\ metrics.initialCashInvested = without.initialCashInvested
        /\ metrics.capRate = without.capRate

\* One YEAR_1 expense of 1000.50: the returned monthly cash flow is a whole number of cents
\* and so is not exactly 1000.50/12 = 83.375 below the one without the expense, while the
\* annual one is exactly 1000.50 below.
C14_Witness ==
  /\ Done
  /\ IsZero(ImmediateSum) /\ Year1Sum = Frac(2001, 2)
  /\ IsFinite(metrics.netMonthlyCashFlow)
  /\ metrics.annualNetCashFlow =
       Sub(calculateMetrics(WithoutExpenses).annualNetCashFlow, Frac(2001, 2))
  /\ metrics.netMonthlyCashFlow #
       Sub(calculateMetrics(WithoutExpenses).netMonthlyCashFlow, Frac(667, 8))

Unrounded ==
  LET c == locals(property)
  IN  [ monthlyMortgagePayment      |-> c.monthlyMortgagePayment,
        grossMonthlyIncome          |-> c.grossMonthlyIncome,
        totalMonthlyExpenses        |-> c.totalMonthlyExpenses,
        netMonthlyIncome            |-> c.netMonthlyIncome,
        netMonthlyCashFlow          |-> c.finalNetMonthlyCashFlow,
        initialCashInvested         |-> c.finalInitialCashInvested,
        cashOnCashReturn            |-> c.finalCashOnCashReturn,
        capRate                     |-> c.finalCapRate,
        annualGrossIncome           |-> Mul(c.grossMonthlyIncome, Num(12)),
        annualNetCashFlow           |-> c.finalAnnualNetCashFlow,
        totalManualCapEx            |-> c.totalManualCapEx,
        immediateCapEx              |-> c.immediateCapEx,
        year1CapEx                  |-> c.year1CapEx,
        adjustedInitialCashInvested |-> c.adjustedInitialCashInvested,
        adjustedCashOnCashReturn    |-> c.adjustedCashOnCashReturn,
        adjustedCapRate             |-> c.adjustedCapRate ]

\* m is v to the nearest hundredth, a tie going up: m is whole cents and v - 0.005 < m <= v + 0.005
NearestCentHalfUp(m, v) ==
  /\ IsCents(m)
  /\ Leq(m, Add(v, Frac(1, 200)))
  /\ GtZero(Sub(m, Sub(v, Frac(1, 200))))

\* v lies exactly halfway between two hundredths
IsTie(v) == IsFinite(v) /\ v.e = 0 /\ 200 % v.d = 0 /\ 100 % v.d # 0

----------------------------------------------------------------------------
(* Claims about the aggregation functions *)

Returned(fn) == pc = "done" /\ result.fn = fn

\* C18: calculateValuation(annualNOI, marketCapRate) is 0 for every marketCapRate <= 0, zero
\* and negative, whatever annualNOI is, and annualNOI / (marketCapRate / 100) for every
\* marketCapRate > 0 (60000 at 6% gives 1,000,000).
C18_ValuationGuarded ==
  Returned("calculateValuation") =>
    /\ Leq(call.marketCapRate, Zero) => result.value = Zero
    /\ GtZero(call.marketCapRate) =>
         result.value = Div(Mul(call.annualNOI, Num(100)), call.marketCapRate)
    /\ (call.annualNOI = Num(60000) /\ call.marketCapRate = Num(6)) =>
         result.value = Num(1000000)

\* A non-zero NOI has been valued at a negative market cap rate, and the valuation is 0.
C18_Witness ==
  /\ Returned("calculateValuation")
  /\ call.marketCapRate.n < 0
  /\ ~IsZero(call.annualNOI)
  /\ result.value = Zero

\* the per-property values of one metrics field
MetricsColumn(ps, field) == [i \in 1..Len(ps) |-> ps[i].metrics[field]]

\* avg is the simple mean of xs, and 0 for no xs
IsSimpleMean(avg, xs) ==
  IF Len(xs) = 0 THEN avg = Zero ELSE Mul(avg, Num(Len(xs))) = SumSeq(xs)

\* C19: the average cap rate and average cash-on-cash return, of the Dashboard and of
\* exportDashboardPDF, are the sum of the per-property capRate, resp. cashOnCashReturn,
\* divided by the number of properties, unweighted, and 0 for an empty portfolio.
C19_SimpleMean ==
  /\ Returned("Dashboard") =>
       /\ IsSimpleMean(result.totals.avgCapRate, MetricsColumn(call.portfolio, "capRate"))
       /\ IsSimpleMean(result.totals.avgCoC, MetricsColumn(call.portfolio, "cashOnCashReturn"))
  /\ Returned("exportDashboardPDF") =>
       /\ IsSimpleMean(result.doc.totals.avgCapRate, MetricsColumn(call.properties, "capRate"))
       /\ IsSimpleMean(result.doc.totals.avgCoC,
                       MetricsColumn(call.properties, "cashOnCashReturn"))

\* Two properties of different price and cap rate: the Dashboard's average is half the sum of
\* the two cap rates, which the price-weighted mean is not.
C19_Witness ==
  /\ Returned("Dashboard")
  /\ Len(call.portfolio) = 2
  /\ call.portfolio[1].shared.purchasePrice # call.portfolio[2].shared.purchasePrice
  /\ call.portfolio[1].metrics.capRate # call.portfolio[2].metrics.capRate
  /\ Mul(result.totals.avgCapRate, Num(2)) =
       Add(call.portfolio[1].metrics.capRate, call.portfolio[2].metrics.capRate)
  /\ result.totals.avgCapRate #
       Div(Add(Mul(call.portfolio[1].metrics.capRate, call.portfolio[1].shared.purchasePrice),
               Mul(call.portfolio[2].metrics.capRate, call.portfolio[2].shared.purchasePrice)),
           Add(call.portfolio[1].shared.purchasePrice, call.portfolio[2].shared.purchasePrice))

\* The dollar columns of the investor distribution table.
DollarColumns == {"equity", "cashInvested", "monthlyCF", "annualCF", "valueShare"}

\* The portfolio total behind a column, from the call's arguments.
PortfolioTotal(col) ==
  LET ps == call.properties
  IN  IF col = "equity"
      THEN SumSeq([i \in 1..Len(ps) |-> Sub(ps[i].shared.purchasePrice, ps[i].shared.loanAmount)])
      ELSE IF col = "cashInvested" THEN SumSeq(MetricsColumn(ps, "initialCashInvested"))
      ELSE IF col = "monthlyCF" THEN SumSeq(MetricsColumn(ps, "netMonthlyCashFlow"))
      ELSE IF col = "annualCF" THEN SumSeq(MetricsColumn(ps, "annualNetCashFlow"))
      ELSE calculateValuation(Mul(SumSeq(MetricsColumn(ps, "netMonthlyIncome")), Num(12)),
                              call.marketCapRate)

\* The amount a formatted cell shows.
Amount(cell) == IF cell.negative THEN Neg(cell.dollars) ELSE cell.dollars

Stakes == [i \in 1..Len(investors) |-> investors[i].stake]

\* C20 (as claimed): each cell of the investor distribution is exactly the investor's stake
\* times the portfolio total of its column, the stakes sum to 100%, and in every column the
\* investors' shares sum to the TOTAL row.
C20_SharesSumToTotalRow ==
  Returned("exportDashboardPDF") =>
    LET table == result.doc.investorTable
    IN  /\ \A i \in 1..Len(investors) : \A col \in DollarColumns :
             Amount(table.body[i][col]) = Mul(PortfolioTotal(col), investors[i].stake)
        /\ SumSeq(Stakes) = Num(1)
        /\ \A col \in DollarColumns :
             SumSeq([i \in 1..Len(investors) |-> Amount(table.body[i][col])]) =
               Amount(table.foot[col])

\* C20 (amended): each cell of the investor distribution shows the investor's stake times
\* the portfolio total of its column, rounded to whole dollars, and the TOTAL row shows the
\* totals rounded to whole dollars; the stakes sum to 100% and the shares before rounding sum
\* to the total; the shares as shown sum to the TOTAL row as shown to within 2 dollars.
C20_SharesRoundedToDollars ==
  Returned("exportDashboardPDF") =>
    LET table == result.doc.investorTable
    IN  /\ \A i \in 1..Len(investors) : \A col \in DollarColumns :
             table.body[i][col] = formatCurrency(Mul(PortfolioTotal(col), investors[i].stake))
        /\ \A i \in 1..Len(investors) :
             table.body[i].ownership = [negative |-> FALSE, hundredths |-> Num(2500)]
        /\ SumSeq(Stakes) = Num(1)
        /\ \A col \in DollarColumns :
             /\ SumSeq([i \in 1..Len(investors) |-> Mul(PortfolioTotal(col), investors[i].stake)])
                  = PortfolioTotal(col)
             /\ table.foot[col] = formatCurrency(PortfolioTotal(col))
             /\ LET shown == SumSeq([i \in 1..Len(investors) |-> Amount(table.body[i][col])])
                    off == Sub(shown, Amount(table.foot[col]))
                IN  Leq(off, Num(2)) /\ Leq(Num(-2), off)

\* A portfolio with 250 of cash invested: each investor is shown 63 and the TOTAL row 250.
C20_Witness ==
  /\ Returned("exportDashboardPDF")
  /\ Len(call.properties) = 1
  /\ PortfolioTotal("cashInvested") = Num(250)
  /\ \A i \in 1..Len(investors) :
       Amount(result.doc.investorTable.body[i].cashInvested) = Num(63)
  /\ Amount(result.doc.investorTable.foot.cashInvested) = Num(250)

----------------------------------------------------------------------------
(* Further claims about calculateMetrics and the aggregation functions *)

\* a and b are equal, or finite and at most 0.06 apart
WithinSixCents(a, b) ==
  \/ a = b
  \/ /\ IsFinite(a) /\ IsFinite(b)
     /\ Leq(Sub(a, b), Frac(6, 100)) /\ Leq(Frac(-6, 100), Sub(a, b))

\* C28 (as claimed): in the returned record annualNetCashFlow is 12 times netMonthlyCashFlow
\* and annualGrossIncome is 12 times grossMonthlyIncome, after the rounding of each field.
C28_AnnualIsTwelveTimesMonthly ==
  Done =>
    /\ metrics.annualNetCashFlow = Mul(metrics.netMonthlyCashFlow, Num(12))
    /\ metrics.annualGrossIncome = Mul(metrics.grossMonthlyIncome, Num(12))

\* C28 (amended): before rounding the annual net cash flow is 12 times the monthly one and
\* the annual gross income 12 times the monthly one; each returned field is its own value
\* rounded to cents, so the returned annual figure is 12 times the returned monthly figure
\* when the monthly value is a whole number of cents, and within 0.06 of it otherwise.
C28_AnnualIsTwelveTimesMonthlyBeforeRounding ==
  Done =>
    LET u == Unrounded
    IN  /\ u.annualNetCashFlow = Mul(u.netMonthlyCashFlow, Num(12))
        /\ metrics.annualNetCashFlow = Round2(Mul(u.netMonthlyCashFlow, Num(12)))
        /\ metrics.annualGrossIncome = Round2(Mul(u.grossMonthlyIncome, Num(12)))
        /\ IsCents(u.netMonthlyCashFlow) =>
             metrics.annualNetCashFlow = Mul(metrics.netMonthlyCashFlow, Num(12))
        /\ IsCents(u.grossMonthlyIncome) =>
             metrics.annualGrossIncome = Mul(metrics.grossMonthlyIncome, Num(12))
        /\ WithinSixCents(metrics.annualNetCashFlow, Mul(metrics.netMonthlyCashFlow, Num(12)))
        /\ WithinSixCents(metrics.annualGrossIncome, Mul(metrics.grossMonthlyIncome, Num(12)))

\* A Year-1 expense of 1000.50 on a property without income or loan: the record holds
\* -1000.50 a year and -83.37 a month.
C28_Witness ==
  /\ Done
  /\ metrics.annualNetCashFlow = Frac(-2001, 2)
  /\ metrics.netMonthlyCashFlow = Frac(-8337, 100)

\* The metrics of the property with another manualExpenses member.
MetricsWithExpenses(me) == calculateMetrics([property EXCEPT !.manualExpenses = me])

\* An expense row whose timing is neither IMMEDIATE nor YEAR_1.
UntimedExpense == [estimatedCost |-> Num(700), timing |-> "YEAR_2"]

\* C30: two properties that differ only in manualExpenses have the same
\* monthlyMortgagePayment, grossMonthlyIncome, totalMonthlyExpenses, netMonthlyIncome and
\* annualGrossIncome (each has those of the property without manual expenses); an expense
\* whose timing is neither IMMEDIATE nor YEAR_1 changes no field of the returned record.
C30_ExpensesTouchOnlyCapExFields ==
  Done =>
    LET without == MetricsWithExpenses(<<>>)
    IN  /\ \A f \in {"monthlyMortgagePayment", "grossMonthlyIncome", "totalMonthlyExpenses",
                      "netMonthlyIncome", "annualGrossIncome"} :
             metrics[f] = without[f]
        /\ MetricsWithExpenses(<<Append(manualExpenses(property), UntimedExpense)>>) = metrics

\* A property with income and CapEx: the CapEx fields differ from those without the
\* expenses, the income fields do not.
C30_Witness ==
  /\ Done
  /\ GtZero(metrics.immediateCapEx) /\ GtZero(metrics.year1CapEx)
  /\ GtZero(metrics.netMonthlyIncome)
  /\ metrics.netMonthlyIncome = MetricsWithExpenses(<<>>).netMonthlyIncome
  /\ metrics.annualNetCashFlow # MetricsWithExpenses(<<>>).annualNetCashFlow
  /\ MetricsWithExpenses(<<Append(manualExpenses(property), UntimedExpense)>>) = metrics

\* C29: for every portfolio and every marketCapRate, positive, zero or negative, the Dashboard
\* totals and the exportDashboardPDF metrics agree on total purchase price, total cash
\* invested, monthly and annual net cash flow, annual NOI, average cap rate, average
\* cash-on-cash return, estimated market value and unrealized gain.
C29_DashboardAndExportAgree ==
  LET agree(t, e) ==
        /\ t.totalValue = e.totalPurchasePrice
        /\ t.totalCashInvested = e.totalCashInvested
        /\ t.totalMonthlyCashFlow = e.netMonthlyCashFlow
        /\ t.totalAnnualCashFlow = e.annualCashFlow
        /\ t.totalAnnualNOI = e.annualNOI
        /\ t.avgCapRate = e.avgCapRate
        /\ t.avgCoC = e.avgCoC
        /\ t.portfolioValuation = e.estimatedValue
        /\ t.equityGain = e.unrealizedGain
  IN  /\ Returned("Dashboard") =>
           agree(result.totals, exportTotals(call.portfolio, call.marketCapRate))
      /\ Returned("exportDashboardPDF") =>
           agree(DashboardTotals(call.properties, call.marketCapRate), result.doc.totals)

\* The export of a portfolio with income at a negative market cap rate: estimated value 0
\* and an unrealized loss of the purchase prices, as on the Dashboard.
C29_Witness ==
  /\ Returned("exportDashboardPDF")
  /\ call.marketCapRate.n < 0
  /\ GtZero(result.doc.totals.annualNOI)
  /\ result.doc.totals.estimatedValue = Zero
  /\ result.doc.totals.unrealizedGain = Neg(result.doc.totals.totalPurchasePrice)
  /\ DashboardTotals(call.properties, call.marketCapRate).equityGain =
       result.doc.totals.unrealizedGain

----------------------------------------------------------------------------
(* Claims about retryWithBackoff *)

Settled == retry.pc \in {"returned", "thrown"}

\* The calls of fn that failed, the last one left out after a throw.
Retried ==
  IF retry.pc = "thrown" /\ retry.errors # <<>>
    THEN SubSeq(retry.errors, 1, Len(retry.errors) - 1)
    ELSE retry.errors

RetrySafe ==
  /\ retry.calls <= retry.maxRetries + 1
  /\ \A i \in 1..Len(Retried) :
       \/ Retried[i].status = 429
       \/ \E w \in {"429", "quota", "rate limit"} : includes(Retried[i].message, w)
  /\ retry.pc \in {"loop", "returned", "thrown"} =>
       /\ Len(retry.delays) = Len(Retried)
       /\ \A i \in 1..Len(retry.delays) : retry.delays[i] = 1000 * (2 ^ (i - 1))
  /\ retry.pc = "returned" =>
       /\ retry.outcome = [kind |-> "value", value |-> retry.calls]
       /\ Len(retry.errors) = retry.calls - 1
  /\ (retry.pc = "thrown" /\ retry.calls > 0) =>
       /\ Len(retry.errors) = retry.calls
       /\ retry.outcome = [kind |-> "error", error |-> retry.errors[retry.calls]]
       /\ \/ retry.calls = retry.maxRetries + 1
          \/ /\ retry.errors[retry.calls].status # 429
             /\ \A w \in {"429", "quota", "rate limit"} :
                  ~includes(retry.errors[retry.calls].message, w)

\* C26: retryWithBackoff calls fn at most maxRetries + 1 times and always
\* settles: it returns the value of the first call that succeeds, rethrows an
\* error that is not a rate-limit error at once, retries only after rate-limit
\* errors, waiting initialDelayMs * 2^attempt before retry number attempt + 1,
\* and throws the error of the last allowed attempt when that one fails too.
C26_BoundedRetriesAndTermination == [](RetrySafe) /\ <>(Settled)

\* Two rate-limit errors were waited out and the third call failed with an
\* error of another kind.
C26_Witness ==
  /\ retry.pc = "thrown"
  /\ retry.maxRetries = 3
  /\ retry.calls = 3
  /\ retry.delays = <<1000, 2000>>
  /\ retry.outcome.error.status = 500
  /\ ~isRateLimited(retry.outcome.error)

----------------------------------------------------------------------------
(* Claims about EasyViz *)

\* C27: the dashboard never holds more than 6 panels, however upload events
\* and reader completions interleave, and the panel ids are exactly the ids
\* of the layout items.
C27_AtMostSixPanels ==
  /\ Len(viz.panels) <= 6
  /\ Ids(viz.panels) = Ids(viz.layout)

----------------------------------------------------------------------------
(* Claims about the portfolio of Home *)

Entries == {app.properties[i] : i \in 1..Len(app.properties)}

\* C21: whatever was added, undone, removed, started anew and loaded, no two
\* entries of the current portfolio have the same shared.id: a submit assigns
\* an id that no other entry gets, also to a property that was undone, edited
\* and submitted again.
C21_IdsAreUnique ==
  \A i, j \in 1..Len(app.properties) :
    i # j => app.properties[i].shared.id # app.properties[j].shared.id

\* After four operations the only entry is the second property submitted, with
\* edited inputs: the first one was undone (or removed) before.
C21_Witness ==
  /\ app.steps = 4
  /\ app.propertyIds = 2
  /\ Len(app.properties) = 1
  /\ app.properties[1].shared.id = 2
  /\ app.properties[1].shared.loanAmount = Num(1050)
  /\ app.canUndo

\* C22: in every reachable state each entry of the current portfolio carries
\* the metrics calculateMetrics returns for the entry's own inputs.
C22_MetricsMatchInputs == \A entry \in Entries : entry.metrics = calculateMetrics(entry)

\* C23: the saved list, which starts empty, never has more than 5 entries; a
\* save that would add a sixth is rejected and leaves the list and localStorage
\* as they were, and an update of the loaded portfolio, allowed at the cap,
\* leaves the number of entries as it was.
C23_AtMostFiveSaved ==
  [][ /\ Len(app'.savedPortfolios) <= 5
      /\ Len(app'.localStorage) <= 5
      /\ (savePortfolio /\ app'.toast = "Limit reached") =>
           /\ Len(app.savedPortfolios) = 5
           /\ app'.savedPortfolios = app.savedPortfolios
           /\ app'.localStorage = app.localStorage
      /\ (savePortfolio /\ app'.toast = "Portfolio updated") =>
           Len(app'.savedPortfolios) = Len(app.savedPortfolios) ]_vars

\* A save was rejected with the list full.
C23_Witness ==
  /\ app.toast = "Limit reached"
  /\ Len(app.savedPortfolios) = 5
  /\ Len(app.localStorage) = 5
  /\ app.properties # <<>>

Holds(list) ==
  \E i \in 1..Len(list) :
    /\ list[i].properties = app'.properties
    /\ list[i].marketCapRate = app'.marketCapRate

\* C24: when savePortfolio ends with "Portfolio saved" or "Portfolio updated",
\* the saved list and localStorage hold an entry with the properties and the
\* market cap rate of the current portfolio.
C24_SuccessMeansStored ==
  [][ (savePortfolio /\ app'.toast \in {"Portfolio saved", "Portfolio updated"}) =>
        (Holds(app'.savedPortfolios) /\ Holds(app'.localStorage)) ]_vars

\* C25: a press of the enabled Undo button removes the entry that the most
\* recent Add Property submit appended, and puts that property into the form.
C25_UndoTakesBackLastSubmit ==
  [][ handleUndo =>
        /\ app.properties # <<>>
        /\ app.properties[Len(app.properties)].shared.id = app.propertyIds
        /\ app'.properties = SubSeq(app.properties, 1, Len(app.properties) - 1)
        /\ app'.formData = app.properties[Len(app.properties)] ]_vars

====
